---- MODULE Spec2Model ----
(***************************************************************************)
(* The job queue of ProcessingService (services/ProcessingService.js) and  *)
(* the generation pipeline of AudioProcessor.processRecording that it      *)
(* drives.  Node runs one handler at a time: a processQueue invocation is  *)
(* a record of `loops' whose pc is the place it has reached, and the       *)
(* handlers that enqueue run only while every invocation is suspended in   *)
(* an await on real I/O.                                                   *)
(***************************************************************************)
EXTENDS Integers, Sequences, FiniteSets, TLC

\* Bounds of the model: jobs ever enqueued, pipeline stages that raise,
\* webhook requests, webhook requests while collaborators fail, calls of
\* rotatePIN.
MaxJobs == 2
MaxFaults == 3
MaxRequests == 3
MaxFaultRequests == 2
MaxRotations == 2

\* maxAttempts of every job object (queueProcessingJob, queueRegenerationJob).
maxAttempts == 3

\* job.userId: missing from the request, or the id of a user.
NoUser == "none"
UserIds == {NoUser, "u1"}

VARIABLES
    jobs,             \* the job objects created so far, by creation order
    processingQueue,  \* ProcessingService.processingQueue: job ids
    isProcessing,     \* ProcessingService.isProcessing
    loops,            \* the processQueue invocations that have not returned
    sessions,         \* rows of the sessions table: id = index
    emitted,          \* per job: events emitted to the room user_<userId>
    runs,             \* per job: calls of processJob
    gen,              \* one run of steps 4 to 6 of processRecording, with its data
    web,              \* the webhooks: mode, last request and response, call_logs
    auth,             \* the users' PINs and one call of rotatePIN
    cleared,          \* the jobs that existed when clearQueue was called
    uploads           \* the recordings in config.storage.local.uploadsDir

vars == <<jobs, processingQueue, isProcessing, loops, sessions, emitted, runs, gen, web, auth,
         cleared, uploads>>

\* The variables that the job queue and its worker never touch.
otherVars == <<gen, web, auth, cleared, uploads>>

\* Places where a processQueue invocation waits for real I/O.
SuspendedPcs == {"download", "validate", "transcribe", "analyze", "createSession",
                 "generate", "files", "saveUpdate", "saveInsert", "notify",
                 "cleanup", "failUpdate", "failSMS", "hung"}

\* No invocation is running synchronous code: a new handler may be dispatched.
Quiescent == \A l \in 1..Len(loops) : loops[l].pc \in SuspendedPcs

Remove(seq, i) == SubSeq(seq, 1, i - 1) \o SubSeq(seq, i + 1, Len(seq))

InQueue(j) == \E i \in 1..Len(processingQueue) : processingQueue[i] = j

\* A processQueue invocation: its place, the job it shifted, the row that
\* createSession returned in this attempt, the exception in flight, and
\* whether sendDownloadLinks raised in this attempt.
NewLoop == [pc |-> "while", job |-> 0, session |-> 0, error |-> "none",
            smsFailed |-> FALSE]

\* The place of the invocation that holds job j.
JobPc(j) ==
    IF \E l \in 1..Len(loops) : loops[l].job = j
       THEN loops[CHOOSE l \in 1..Len(loops) : loops[l].job = j].pc
       ELSE "none"

NoEvents == [started |-> 0, complete |-> 0, failed |-> 0]

\* A value that has not been computed yet.
Nothing == [kind |-> "nothing"]

\* No run of steps 4 to 6 is observed.
GenIdle == [pc |-> "idle", analysis |-> Nothing, row |-> Nothing,
            enhanced |-> Nothing, chords |-> Nothing, genre |-> Nothing,
            arrangement |-> Nothing, result |-> Nothing,
            failed |-> {}, ran |-> {}, seen |-> << >>]

\* The service after its module was loaded: empty queue, no worker.
QueueInit ==
    /\ jobs = << >>
    /\ processingQueue = << >>
    /\ isProcessing = FALSE
    /\ loops = << >>
    /\ sessions = << >>
    /\ emitted = << >>
    /\ runs = << >>

\* The webhooks have handled no request; NODE_ENV is production.
WebIdle ==
    [mode |-> "production", handled |-> 0, request |-> [endpoint |-> "none"],
     reply |-> [status |-> 0], callLog |-> {}, validations |-> 0,
     records |-> << >>, rejected |-> [format |-> [status |-> 0], auth |-> [status |-> 0]],
     failurePaths |-> 0, failureEvents |-> 0, failedCalls |-> {},
     failedAttempts |-> 0, lastLogin |-> << >>]

\* No rotatePIN is running; the PINs are those of the users table.
PinIdle ==
    [pc |-> "idle",
     pins |-> [u \in {"u1", "u2"} |->
                 IF u = "u1" THEN <<"1", "2", "3", "4", "5", "6">>
                             ELSE <<"2", "2", "2", "2", "2", "2">>],
     before |-> << >>,
     userId |-> NoUser, attempts |-> 0, draws |-> 0, candidate |-> << >>,
     outcome |-> "none", result |-> << >>, rotations |-> 0]

Init ==
    /\ QueueInit
    /\ gen = GenIdle
    /\ web = WebIdle
    /\ auth = PinIdle
    /\ cleared = {}
    /\ uploads = 0

\* Mutant: a loop is started although one is active.
StartsWorkerUnguarded(flag, len) == len # 0

\* if (!this.isProcessing) this.processQueue(), and processQueue's own guard.
StartsWorker(flag, len) == (~flag) /\ ~(flag \/ len = 0)

\* The tail shared by both enqueue operations: push, then start the loop.
Enqueue(job) ==
    /\ Len(jobs) < MaxJobs
    /\ Quiescent
    /\ jobs' = Append(jobs, job)
    /\ processingQueue' = Append(processingQueue, Len(jobs) + 1)
    /\ emitted' = Append(emitted, NoEvents)
    /\ runs' = Append(runs, 0)
    /\ IF StartsWorker(isProcessing, Len(processingQueue) + 1)
          THEN /\ isProcessing' = TRUE
               /\ loops' = Append(loops, NewLoop)
          ELSE UNCHANGED <<isProcessing, loops>>
    /\ UNCHANGED sessions

\* The recording of a new call: every call has its own CallSid.
queueProcessingJob ==
    /\ \E u \in UserIds, p \in BOOLEAN :
          Enqueue([type |-> "process_recording", userId |-> u,
                   callSid |-> Len(jobs) + 1, sessionId |-> 0, phoneNumber |-> p,
                   status |-> "queued", attempts |-> 0])
    /\ UNCHANGED otherVars

\* The dashboard passes a session row of the requesting user.
queueRegenerationJob ==
    /\ \E s \in {r \in 1..Len(sessions) : sessions[r].userId # NoUser} :
          Enqueue([type |-> "regenerate_session", userId |-> sessions[s].userId,
                   callSid |-> 0, sessionId |-> s, phoneNumber |-> FALSE,
                   status |-> "queued", attempts |-> 0])
    /\ UNCHANGED otherVars

(***************************************************************************)
(* processQueue and processJob                                             *)
(***************************************************************************)

\* Mutant: the loop returns while one job is still queued.
LoopContinuesOffByOne(len) == len > 1

\* while (this.processingQueue.length > 0)
LoopContinues(len) == len > 0

\* The loop test: shift the head and call processJob.
WhileShift(l) ==
    /\ loops[l].pc = "while"
    /\ LoopContinues(Len(processingQueue))
    /\ loops' = [loops EXCEPT ![l].pc = "processJob", ![l].job = Head(processingQueue)]
    /\ processingQueue' = Tail(processingQueue)
    /\ UNCHANGED <<jobs, isProcessing, sessions, emitted, runs, otherVars>>

\* The loop test fails: clear the flag and return.
WhileExit(l) ==
    /\ loops[l].pc = "while"
    /\ ~LoopContinues(Len(processingQueue))
    /\ isProcessing' = FALSE
    /\ loops' = Remove(loops, l)
    /\ UNCHANGED <<jobs, processingQueue, sessions, emitted, runs, otherVars>>

\* if (io && job.userId): io of server.js is always set.
EmitsTo(userId) == userId # NoUser

\* Mutant: the failure is published on the completion event as well.
FailedEventTwice(e) == [e EXCEPT !.failed = @ + 1, !.complete = @ + 1]

\* Mutant: processJob publishes no started event.
StartedEventMissing(e) == e

StartedEvent(e) == [e EXCEPT !.started = @ + 1]
CompleteEvent(e) == [e EXCEPT !.complete = @ + 1]
FailedEvent(e) == [e EXCEPT !.failed = @ + 1]

\* An exception leaves processJob: control reaches the catch of processQueue.
Raise(l, err) == loops' = [loops EXCEPT ![l].pc = "catch", ![l].error = err,
                                        ![l].session = 0, ![l].smsFailed = FALSE]

Goto(l, pc) == loops' = [loops EXCEPT ![l].pc = pc]

RECURSIVE SumAttempts(_)
SumAttempts(n) ==
    IF n = 0 THEN 0
    ELSE SumAttempts(n - 1) +
         (IF jobs[n].type = "process_recording" THEN jobs[n].attempts ELSE 0)

\* Exceptions raised so far in attempts of process_recording jobs.
Faults ==
    SumAttempts(Len(jobs)) +
    Cardinality({l \in 1..Len(loops) :
                    /\ loops[l].pc = "catch"
                    /\ jobs[loops[l].job].type = "process_recording"})

\* A collaborator of the pipeline may fail while the budget lasts.
MayFail == Faults < MaxFaults

\* Mutant: a retry skips the download of the recording.
FirstStageResumes(calls) == IF calls = 0 THEN "download" ELSE "validate"

\* Step 1 of processRecording, whatever the number of earlier calls of
\* processJob for the job: nothing of an earlier attempt is kept.
FirstStage(calls) == "download"

\* processJob up to the pipeline call: mark processing, publish the start.
ProcessJobStart(l) ==
    LET j == loops[l].job IN
    /\ loops[l].pc = "processJob"
    /\ jobs' = [jobs EXCEPT ![j].status = "processing"]
    /\ runs' = [runs EXCEPT ![j] = @ + 1]
    /\ emitted' = IF EmitsTo(jobs[j].userId)
                     THEN [emitted EXCEPT ![j] = StartedEvent(@)]
                     ELSE emitted
    /\ Goto(l, IF jobs[j].type = "process_recording"
                  THEN FirstStage(runs[j]) ELSE "regenerate")
    /\ UNCHANGED <<processingQueue, isProcessing, sessions, otherVars>>

\* AudioProcessor defines no regenerateSession: the call is a TypeError.
RegenerateSession(l) ==
    /\ loops[l].pc = "regenerate"
    /\ Raise(l, "regenerate")
    /\ UNCHANGED <<jobs, processingQueue, isProcessing, sessions, emitted, runs, otherVars>>

(***************************************************************************)
(* AudioProcessor.processRecording                                         *)
(***************************************************************************)

\* Mutant: the music is generated before the session row is inserted.
NextStageGenerateFirst(here) ==
    CASE here = "download" -> "validate"
      [] here = "validate" -> "transcribe"
      [] here = "transcribe" -> "analyze"
      [] here = "analyze" -> "generate"
      [] here = "generate" -> "createSession"
      [] here = "createSession" -> "files"
      [] here = "files" -> "saveUpdate"
      [] here = "saveUpdate" -> "saveInsert"
      [] here = "saveInsert" -> "notify"
      [] here = "notify" -> "cleanup"
      [] here = "cleanup" -> "emitComplete"

\* The statement that follows each awaited call of processRecording (steps
\* 1 to 9 and the cleanup) and of saveResults (its two queries).
NextStage(here) ==
    CASE here = "download" -> "validate"
      [] here = "validate" -> "transcribe"
      [] here = "transcribe" -> "analyze"
      [] here = "analyze" -> "createSession"
      [] here = "createSession" -> "generate"
      [] here = "generate" -> "files"
      [] here = "files" -> "saveUpdate"
      [] here = "saveUpdate" -> "saveInsert"
      [] here = "saveInsert" -> "notify"
      [] here = "notify" -> "cleanup"
      [] here = "cleanup" -> "emitComplete"

StageReturns(l, here, next) ==
    /\ loops[l].pc = here
    /\ Goto(l, next)
    /\ UNCHANGED <<jobs, processingQueue, isProcessing, sessions, emitted, runs, otherVars>>

StageRaises(l, here, err) ==
    /\ loops[l].pc = here
    /\ MayFail
    /\ Raise(l, err)
    /\ UNCHANGED <<jobs, processingQueue, isProcessing, sessions, emitted, runs, otherVars>>

\* downloadAudio returns after fs.writeFile has stored the recording.
DownloadAudioReturns(l) ==
    /\ loops[l].pc = "download"
    /\ Goto(l, NextStage("download"))
    /\ uploads' = uploads + 1
    /\ UNCHANGED <<jobs, processingQueue, isProcessing, sessions, emitted, runs,
                   gen, web, auth, cleared>>
DownloadAudioRaises(l) == StageRaises(l, "download", "download")

ValidateAudioFileReturns(l) == StageReturns(l, "validate", NextStage("validate"))
ValidateAudioFileRaises(l) == StageRaises(l, "validate", "validate")

TranscribeAudioReturns(l) == StageReturns(l, "transcribe", NextStage("transcribe"))
TranscribeAudioRaises(l) == StageRaises(l, "transcribe", "transcribe")

\* The collaborator's failure is caught and replaced by the default analysis.
AnalyzeMusicalElements(l) == StageReturns(l, "analyze", NextStage("analyze"))

CreateSessionReturns(l) ==
    LET j == loops[l].job IN
    /\ loops[l].pc = "createSession"
    /\ sessions' = Append(sessions, [callSid |-> jobs[j].callSid,
                                     userId |-> jobs[j].userId,
                                     status |-> "processing"])
    /\ loops' = [loops EXCEPT ![l].pc = NextStage("createSession"),
                              ![l].session = Len(sessions) + 1]
    /\ UNCHANGED <<jobs, processingQueue, isProcessing, emitted, runs, otherVars>>

CreateSessionRaises(l) == StageRaises(l, "createSession", "createSession")

\* generateMusic catches every failure and returns the fallback music data.
GenerateMusic(l) == StageReturns(l, "generate", NextStage("generate"))

GenerateAudioFilesReturns(l) == StageReturns(l, "files", NextStage("files"))
GenerateAudioFilesRaises(l) == StageRaises(l, "files", "files")

\* saveResults, first query: UPDATE sessions SET processing_status = 'completed'.
SaveResultsUpdateReturns(l) ==
    /\ loops[l].pc = "saveUpdate"
    /\ sessions' = [sessions EXCEPT ![loops[l].session].status = "completed"]
    /\ Goto(l, NextStage("saveUpdate"))
    /\ UNCHANGED <<jobs, processingQueue, isProcessing, emitted, runs, otherVars>>

SaveResultsUpdateRaises(l) == StageRaises(l, "saveUpdate", "saveResults")

\* saveResults, second query: INSERT INTO generated_tracks; then step 9's test.
SaveResultsInsertReturns(l) ==
    /\ loops[l].pc = "saveInsert"
    /\ Goto(l, IF jobs[loops[l].job].phoneNumber
                  THEN NextStage("saveInsert") ELSE NextStage("notify"))
    /\ UNCHANGED <<jobs, processingQueue, isProcessing, sessions, emitted, runs, otherVars>>

SaveResultsInsertRaises(l) == StageRaises(l, "saveInsert", "saveResults")

\* Mutant: the catch of sendSMSNotification rethrows.
AfterNotifyRethrows(ok) == IF ok THEN NextStage("notify") ELSE "catch"

\* Where sendSMSNotification leaves the pipeline when sendDownloadLinks
\* returned (ok) or raised: the catch logs and does not rethrow.
AfterNotify(ok) == NextStage("notify")

SendSMSNotification(l, ok) ==
    /\ loops[l].pc = "notify"
    /\ IF AfterNotify(ok) = "catch"
          THEN Raise(l, "notify")
          ELSE loops' = [loops EXCEPT ![l].pc = AfterNotify(ok), ![l].smsFailed = ~ok]
    /\ UNCHANGED <<jobs, processingQueue, isProcessing, sessions, emitted, runs, otherVars>>

SendSMSNotificationReturns(l) == SendSMSNotification(l, TRUE)
SendSMSNotificationRaises(l) == SendSMSNotification(l, FALSE)

\* cleanup unlinks the recording and swallows its own failure;
\* processRecording returns its result.
Cleanup(l) ==
    /\ loops[l].pc = "cleanup"
    /\ Goto(l, NextStage("cleanup"))
    /\ uploads' = uploads - 1
    /\ UNCHANGED <<jobs, processingQueue, isProcessing, sessions, emitted, runs,
                   gen, web, auth, cleared>>

\* processJob after the pipeline returned: publish, then mark completed.
ProcessJobComplete(l) ==
    LET j == loops[l].job IN
    /\ loops[l].pc = "emitComplete"
    /\ emitted' = IF EmitsTo(jobs[j].userId)
                     THEN [emitted EXCEPT ![j] = CompleteEvent(@)]
                     ELSE emitted
    /\ jobs' = [jobs EXCEPT ![j].status = "completed"]
    /\ loops' = [loops EXCEPT ![l] = NewLoop]
    /\ UNCHANGED <<processingQueue, isProcessing, sessions, runs, otherVars>>

(***************************************************************************)
(* processQueue's catch and handleJobFailure                               *)
(***************************************************************************)

\* Mutant: one retry too many.
ShouldRetryInclusive(attempts) == attempts <= maxAttempts

\* Mutant: one retry too few.
ShouldRetryEarly(attempts) == attempts < maxAttempts - 1

\* if (job.attempts < job.maxAttempts), read after job.attempts++.
ShouldRetry(attempts) == attempts < maxAttempts

\* Mutant: the retry pushes the job twice.
RequeueTwice(queue, j) == Append(Append(queue, j), j)

\* Mutant: the retry goes to the head of the queue.
RequeueAtHead(queue, j) == <<j>> \o queue

\* this.processingQueue.push(job) of the retry branch.
Requeue(queue, j) == Append(queue, j)

\* The catch block, retry branch: count the attempt and push the job again.
CatchRetry(l) ==
    LET j == loops[l].job
        n == jobs[j].attempts + 1
    IN
    /\ loops[l].pc = "catch"
    /\ ShouldRetry(n)
    /\ jobs' = [jobs EXCEPT ![j].attempts = n, ![j].status = "retrying"]
    /\ processingQueue' = Requeue(processingQueue, j)
    /\ loops' = [loops EXCEPT ![l] = NewLoop]
    /\ UNCHANGED <<isProcessing, sessions, emitted, runs, otherVars>>

\* The catch block, permanent failure: handleJobFailure up to its first await.
CatchFail(l) ==
    LET j == loops[l].job
        n == jobs[j].attempts + 1
    IN
    /\ loops[l].pc = "catch"
    /\ ~ShouldRetry(n)
    /\ jobs' = [jobs EXCEPT ![j].attempts = n, ![j].status = "failed"]
    /\ loops' = [loops EXCEPT ![l].error = "none",
                              ![l].pc = IF jobs[j].type = "process_recording"
                                           THEN "failUpdate" ELSE "failEmit"]
    /\ UNCHANGED <<processingQueue, isProcessing, sessions, emitted, runs, otherVars>>

\* Rows selected by WHERE call_sid = $1 AND user_id = $2 (a NULL never matches).
SessionMatches(row, callSid, userId) ==
    /\ row.callSid = callSid
    /\ row.userId = userId
    /\ userId # NoUser

MarkFailed(rows, callSid, userId) ==
    [r \in 1..Len(rows) |->
        IF SessionMatches(rows[r], callSid, userId)
           THEN [rows[r] EXCEPT !.status = "failed"]
           ELSE rows[r]]

\* Mutant: the catch blocks of handleJobFailure rethrow.
HandlerCatchRethrows(ok, next) == IF ok THEN next ELSE "rejected"

\* Where handleJobFailure goes on after a guarded call returned (ok) or
\* raised: both of its catch blocks log and fall through.
HandlerCatch(ok, next) == next

\* A guarded call of handleJobFailure settles; were its exception to leave
\* the handler, processQueue's promise would be rejected with the flag set.
HandlerStep(l, ok, loop) ==
    IF HandlerCatch(ok, loop.pc) = "rejected"
       THEN loops' = Remove(loops, l)
       ELSE loops' = [loops EXCEPT ![l] = [loop EXCEPT !.pc = HandlerCatch(ok, loop.pc)]]

\* handleJobFailure, process_recording only: the UPDATE is applied.
FailureUpdateReturns(l) ==
    LET j == loops[l].job IN
    /\ loops[l].pc = "failUpdate"
    /\ sessions' = MarkFailed(sessions, jobs[j].callSid, jobs[j].userId)
    /\ HandlerStep(l, TRUE, [loops[l] EXCEPT !.pc = "failEmit"])
    /\ UNCHANGED <<jobs, processingQueue, isProcessing, emitted, runs, otherVars>>

\* The UPDATE raises: logged and swallowed.
FailureUpdateRaises(l) ==
    /\ loops[l].pc = "failUpdate"
    /\ HandlerStep(l, FALSE, [loops[l] EXCEPT !.pc = "failEmit"])
    /\ UNCHANGED <<jobs, processingQueue, isProcessing, sessions, emitted, runs, otherVars>>

\* handleJobFailure: publish the failure, then the test on job.phoneNumber.
FailureEmit(l) ==
    LET j == loops[l].job IN
    /\ loops[l].pc = "failEmit"
    /\ emitted' = IF EmitsTo(jobs[j].userId)
                     THEN [emitted EXCEPT ![j] = FailedEvent(@)]
                     ELSE emitted
    /\ loops' = [loops EXCEPT ![l] = IF jobs[j].phoneNumber
                                        THEN [@ EXCEPT !.pc = "failSMS"]
                                        ELSE NewLoop]
    /\ UNCHANGED <<jobs, processingQueue, isProcessing, sessions, runs, otherVars>>

\* handleJobFailure: the apology SMS, inside try/catch.  sendSMS itself
\* catches the provider's error; new TwilioService() can raise.
FailureSMS(l, ok) ==
    /\ loops[l].pc = "failSMS"
    /\ HandlerStep(l, ok, NewLoop)
    /\ UNCHANGED <<jobs, processingQueue, isProcessing, sessions, emitted, runs, otherVars>>

FailureSMSReturns(l) == FailureSMS(l, TRUE)
FailureSMSRaises(l) == FailureSMS(l, FALSE)

(***************************************************************************)
(* Publishing that raises: io.to(room).emit throws inside processJob or    *)
(* handleJobFailure.                                                       *)
(***************************************************************************)

StartedEmitRaises(l) ==
    LET j == loops[l].job IN
    /\ loops[l].pc = "processJob"
    /\ EmitsTo(jobs[j].userId)
    /\ jobs' = [jobs EXCEPT ![j].status = "processing"]
    /\ runs' = [runs EXCEPT ![j] = @ + 1]
    /\ Raise(l, "emit")
    /\ UNCHANGED <<processingQueue, isProcessing, sessions, emitted, otherVars>>

CompleteEmitRaises(l) ==
    /\ loops[l].pc = "emitComplete"
    /\ EmitsTo(jobs[loops[l].job].userId)
    /\ Raise(l, "emit")
    /\ UNCHANGED <<jobs, processingQueue, isProcessing, sessions, emitted, runs, otherVars>>

\* The exception leaves the catch block: processQueue's promise is rejected
\* and the statement that clears isProcessing is never reached.
FailedEmitRaises(l) ==
    /\ loops[l].pc = "failEmit"
    /\ EmitsTo(jobs[loops[l].job].userId)
    /\ loops' = Remove(loops, l)
    /\ UNCHANGED <<jobs, processingQueue, isProcessing, sessions, emitted, runs, otherVars>>

(***************************************************************************)
(* Specifications                                                          *)
(***************************************************************************)

Worker(l) ==
    \/ WhileShift(l)
    \/ WhileExit(l)
    \/ ProcessJobStart(l)
    \/ RegenerateSession(l)
    \/ DownloadAudioReturns(l)
    \/ DownloadAudioRaises(l)
    \/ ValidateAudioFileReturns(l)
    \/ ValidateAudioFileRaises(l)
    \/ TranscribeAudioReturns(l)
    \/ TranscribeAudioRaises(l)
    \/ AnalyzeMusicalElements(l)
    \/ CreateSessionReturns(l)
    \/ CreateSessionRaises(l)
    \/ GenerateMusic(l)
    \/ GenerateAudioFilesReturns(l)
    \/ GenerateAudioFilesRaises(l)
    \/ SaveResultsUpdateReturns(l)
    \/ SaveResultsUpdateRaises(l)
    \/ SaveResultsInsertReturns(l)
    \/ SaveResultsInsertRaises(l)
    \/ SendSMSNotificationReturns(l)
    \/ SendSMSNotificationRaises(l)
    \/ Cleanup(l)
    \/ ProcessJobComplete(l)
    \/ CatchRetry(l)
    \/ CatchFail(l)
    \/ FailureUpdateReturns(l)
    \/ FailureUpdateRaises(l)
    \/ FailureEmit(l)
    \/ FailureSMSReturns(l)
    \/ FailureSMSRaises(l)

Next ==
    \/ queueProcessingJob
    \/ queueRegenerationJob
    \/ \E l \in 1..Len(loops) : WhileShift(l)
    \/ \E l \in 1..Len(loops) : WhileExit(l)
    \/ \E l \in 1..Len(loops) : ProcessJobStart(l)
    \/ \E l \in 1..Len(loops) : RegenerateSession(l)
    \/ \E l \in 1..Len(loops) : DownloadAudioReturns(l)
    \/ \E l \in 1..Len(loops) : DownloadAudioRaises(l)
    \/ \E l \in 1..Len(loops) : ValidateAudioFileReturns(l)
    \/ \E l \in 1..Len(loops) : ValidateAudioFileRaises(l)
    \/ \E l \in 1..Len(loops) : TranscribeAudioReturns(l)
    \/ \E l \in 1..Len(loops) : TranscribeAudioRaises(l)
    \/ \E l \in 1..Len(loops) : AnalyzeMusicalElements(l)
    \/ \E l \in 1..Len(loops) : CreateSessionReturns(l)
    \/ \E l \in 1..Len(loops) : CreateSessionRaises(l)
    \/ \E l \in 1..Len(loops) : GenerateMusic(l)
    \/ \E l \in 1..Len(loops) : GenerateAudioFilesReturns(l)
    \/ \E l \in 1..Len(loops) : GenerateAudioFilesRaises(l)
    \/ \E l \in 1..Len(loops) : SaveResultsUpdateReturns(l)
    \/ \E l \in 1..Len(loops) : SaveResultsUpdateRaises(l)
    \/ \E l \in 1..Len(loops) : SaveResultsInsertReturns(l)
    \/ \E l \in 1..Len(loops) : SaveResultsInsertRaises(l)
    \/ \E l \in 1..Len(loops) : SendSMSNotificationReturns(l)
    \/ \E l \in 1..Len(loops) : SendSMSNotificationRaises(l)
    \/ \E l \in 1..Len(loops) : Cleanup(l)
    \/ \E l \in 1..Len(loops) : ProcessJobComplete(l)
    \/ \E l \in 1..Len(loops) : CatchRetry(l)
    \/ \E l \in 1..Len(loops) : CatchFail(l)
    \/ \E l \in 1..Len(loops) : FailureUpdateReturns(l)
    \/ \E l \in 1..Len(loops) : FailureUpdateRaises(l)
    \/ \E l \in 1..Len(loops) : FailureEmit(l)
    \/ \E l \in 1..Len(loops) : FailureSMSReturns(l)
    \/ \E l \in 1..Len(loops) : FailureSMSRaises(l)

Spec == Init /\ [][Next]_vars

\* The event loop resumes every invocation whose awaited call has settled.
FairSpec == Spec /\ WF_vars(\E l \in 1..Len(loops) : Worker(l))

\* createSession: db.query carries no timeout, and the pool of
\* utils/database sets none; an INSERT that the database never answers
\* leaves the await pending.
CreateSessionHangs(l) ==
    /\ loops[l].pc = "createSession"
    /\ loops' = [loops EXCEPT ![l].pc = "hung"]
    /\ UNCHANGED <<jobs, processingQueue, isProcessing, sessions, emitted, runs, otherVars>>

\* The same program with a database that may stop answering.
NextHang ==
    \/ Next
    \/ \E l \in 1..Len(loops) : CreateSessionHangs(l)

\* The event loop resumes every invocation whose awaited call has settled.
SpecHang ==
    Init /\ [][NextHang]_vars /\ WF_vars(\E l \in 1..Len(loops) : Worker(l))

\* clearQueue, called between two steps of the worker: a new empty array
\* and the flag reset; the loops that are suspended go on.
clearQueue ==
    /\ Quiescent
    /\ processingQueue' = << >>
    /\ isProcessing' = FALSE
    /\ cleared' = cleared \cup (1..Len(jobs))
    /\ UNCHANGED <<jobs, loops, sessions, emitted, runs, gen, web, auth, uploads>>

\* Recordings, an administrator who clears the queue, and a worker whose
\* only failing stage is the download.
NextClear ==
    \/ queueProcessingJob
    \/ clearQueue
    \/ \E l \in 1..Len(loops) : WhileShift(l)
    \/ \E l \in 1..Len(loops) : WhileExit(l)
    \/ \E l \in 1..Len(loops) : ProcessJobStart(l)
    \/ \E l \in 1..Len(loops) : DownloadAudioReturns(l)
    \/ \E l \in 1..Len(loops) : DownloadAudioRaises(l)
    \/ \E l \in 1..Len(loops) : ValidateAudioFileReturns(l)
    \/ \E l \in 1..Len(loops) : TranscribeAudioReturns(l)
    \/ \E l \in 1..Len(loops) : AnalyzeMusicalElements(l)
    \/ \E l \in 1..Len(loops) : CreateSessionReturns(l)
    \/ \E l \in 1..Len(loops) : GenerateMusic(l)
    \/ \E l \in 1..Len(loops) : GenerateAudioFilesReturns(l)
    \/ \E l \in 1..Len(loops) : SaveResultsUpdateReturns(l)
    \/ \E l \in 1..Len(loops) : SaveResultsInsertReturns(l)
    \/ \E l \in 1..Len(loops) : SendSMSNotificationReturns(l)
    \/ \E l \in 1..Len(loops) : Cleanup(l)
    \/ \E l \in 1..Len(loops) : ProcessJobComplete(l)
    \/ \E l \in 1..Len(loops) : CatchRetry(l)
    \/ \E l \in 1..Len(loops) : CatchFail(l)
    \/ \E l \in 1..Len(loops) : FailureUpdateReturns(l)
    \/ \E l \in 1..Len(loops) : FailureEmit(l)
    \/ \E l \in 1..Len(loops) : FailureSMSReturns(l)

SpecClear == Init /\ [][NextClear]_vars

\* The same program with a realtime transport whose emit can throw.
NextEmit ==
    \/ Next
    \/ \E l \in 1..Len(loops) : StartedEmitRaises(l)
    \/ \E l \in 1..Len(loops) : CompleteEmitRaises(l)
    \/ \E l \in 1..Len(loops) : FailedEmitRaises(l)

SpecEmit == Init /\ [][NextEmit]_vars

(***************************************************************************)
(* The scenario of a download that fails on the first two attempts of      *)
(* every job and succeeds on the third, every later stage succeeding.      *)
(***************************************************************************)

\* downloadAudio with the scripted outcome of the scenario.
ScriptedDownloadAudio(l) ==
    /\ loops[l].pc = "download"
    /\ IF runs[loops[l].job] <= 2
          THEN Raise(l, "download") /\ UNCHANGED uploads
          ELSE Goto(l, NextStage("download")) /\ uploads' = uploads + 1
    /\ UNCHANGED <<jobs, processingQueue, isProcessing, sessions, emitted, runs,
                   gen, web, auth, cleared>>

ScenarioWorker(l) ==
    \/ WhileShift(l)
    \/ WhileExit(l)
    \/ ProcessJobStart(l)
    \/ ScriptedDownloadAudio(l)
    \/ ValidateAudioFileReturns(l)
    \/ TranscribeAudioReturns(l)
    \/ AnalyzeMusicalElements(l)
    \/ CreateSessionReturns(l)
    \/ GenerateMusic(l)
    \/ GenerateAudioFilesReturns(l)
    \/ SaveResultsUpdateReturns(l)
    \/ SaveResultsInsertReturns(l)
    \/ SendSMSNotificationReturns(l)
    \/ Cleanup(l)
    \/ ProcessJobComplete(l)
    \/ CatchRetry(l)

NextScenario ==
    \/ queueProcessingJob
    \/ \E l \in 1..Len(loops) : WhileShift(l)
    \/ \E l \in 1..Len(loops) : WhileExit(l)
    \/ \E l \in 1..Len(loops) : ProcessJobStart(l)
    \/ \E l \in 1..Len(loops) : ScriptedDownloadAudio(l)
    \/ \E l \in 1..Len(loops) : ValidateAudioFileReturns(l)
    \/ \E l \in 1..Len(loops) : TranscribeAudioReturns(l)
    \/ \E l \in 1..Len(loops) : AnalyzeMusicalElements(l)
    \/ \E l \in 1..Len(loops) : CreateSessionReturns(l)
    \/ \E l \in 1..Len(loops) : GenerateMusic(l)
    \/ \E l \in 1..Len(loops) : GenerateAudioFilesReturns(l)
    \/ \E l \in 1..Len(loops) : SaveResultsUpdateReturns(l)
    \/ \E l \in 1..Len(loops) : SaveResultsInsertReturns(l)
    \/ \E l \in 1..Len(loops) : SendSMSNotificationReturns(l)
    \/ \E l \in 1..Len(loops) : Cleanup(l)
    \/ \E l \in 1..Len(loops) : ProcessJobComplete(l)
    \/ \E l \in 1..Len(loops) : CatchRetry(l)

SpecScenario ==
    /\ Init
    /\ [][NextScenario]_vars
    /\ WF_vars(\E l \in 1..Len(loops) : ScenarioWorker(l))

(***************************************************************************)
(* Steps 4 to 6 of processRecording with their data: the analysis of       *)
(* analyzeMusicalElements, the row of createSession, and the four agents   *)
(* of AG2MusicGenerator.generateMusic.  Every chat completion is created   *)
(* with response_format json_object: a reply is a JSON object, or the call *)
(* raises, or the content does not parse.                                  *)
(***************************************************************************)

\* {...a, ...b}: the fields of b override those of a.
Merge(a, b) ==
    [f \in DOMAIN a \cup DOMAIN b |-> IF f \in DOMAIN b THEN b[f] ELSE a[f]]

CallRaises == [ok |-> FALSE, cause |-> "raises"]
Unparsable == [ok |-> FALSE, cause |-> "unparsable"]
Parsed(object) == [ok |-> TRUE, value |-> object]

\* The object returned by the catch of analyzeMusicalElements.
DefaultAnalysis ==
    [tempo |-> 120, key |-> "C", mood |-> <<"neutral">>, genres |-> <<"pop">>,
     structure |-> "verse-chorus", energy |-> 5, confidence |-> "0.3"]

\* Replies of the analysis completion: two JSON objects, one of them
\* without the genres field, and the two failures.
AnalyzeReplies ==
    {Parsed([tempo |-> 96, key |-> "Am", mood |-> <<"melancholy">>,
             genres |-> <<"rock">>, energy |-> 4, confidence |-> "0.8"]),
     Parsed([tempo |-> 140, key |-> "G", mood |-> <<"upbeat">>, energy |-> 8]),
     CallRaises, Unparsable}

\* Mutant: the catch of analyzeMusicalElements rethrows.
AnalyzeResultRethrows(reply) ==
    IF reply.ok THEN [raised |-> FALSE, value |-> reply.value]
                ELSE [raised |-> TRUE, value |-> DefaultAnalysis]

\* analyzeMusicalElements: JSON.parse of the reply's content inside the
\* try, the default object from the catch.
AnalyzeResult(reply) ==
    IF reply.ok THEN [raised |-> FALSE, value |-> reply.value]
                ELSE [raised |-> FALSE, value |-> DefaultAnalysis]

\* Mutant: the catch of an agent rethrows.
AgentResultAborts(reply, default) ==
    IF reply.ok THEN [raised |-> FALSE, value |-> reply.value]
                ELSE [raised |-> TRUE, value |-> default]

\* The try/catch shared by the four agents: the parsed reply, or the
\* agent's own default.
AgentResult(reply, default) ==
    IF reply.ok THEN [raised |-> FALSE, value |-> reply.value]
                ELSE [raised |-> FALSE, value |-> default]

\* runMusicAnalyst
AnalystReplies ==
    {Parsed([tempo |-> 100, key |-> "Am", scale |-> "minor", energy |-> 6]),
     Parsed([tempo |-> 128, key |-> "D", scale |-> "major", genres |-> <<"jazz">>]),
     CallRaises, Unparsable}

AnalystDefault(musicalAnalysis) ==
    Merge(musicalAnalysis, [scale |-> "major", rhythmicPattern |-> "steady four-four",
                            melodicHints |-> "vocal melody detected",
                            confidence |-> "0.6"])

\* runChordComposer
ComposerReplies ==
    {Parsed([primaryProgression |-> <<"Am", "F", "C", "G">>, timing |-> "half notes",
             complexity |-> "intermediate"]),
     CallRaises, Unparsable}

ChordNotes == [C |-> <<"C4", "E4", "G4">>, Am |-> <<"A3", "C4", "E4">>,
               F |-> <<"F3", "A3", "C4">>, G |-> <<"G3", "B3", "D4">>]

ComposerDefault ==
    [primaryProgression |-> <<"C", "Am", "F", "G">>, chordNotes |-> ChordNotes,
     timing |-> "whole notes"]

\* runGenreSpecialist
PrimaryGenre(analysis) ==
    IF "genres" \in DOMAIN analysis /\ Len(analysis.genres) > 0
       THEN analysis.genres[1] ELSE "pop"

SpecialistReplies ==
    {Parsed([primaryGenre |-> "rock", rhythmPattern |-> "driving eighths"]),
     CallRaises, Unparsable}

SpecialistDefault(analysis) ==
    [primaryGenre |-> PrimaryGenre(analysis),
     instrumentation |-> [drums |-> "acoustic drum kit", bass |-> "electric bass",
                          chords |-> "piano", melody |-> "synth lead"],
     rhythmPattern |-> "steady four-four"]

\* runArrangementDirector
DirectorReplies ==
    {Parsed([finalInstrumentation |-> [drums |-> "brush kit"], loopReady |-> TRUE]),
     CallRaises, Unparsable}

DirectorDefault ==
    [finalInstrumentation |-> [drums |-> "acoustic kit", bass |-> "electric bass",
                               chords |-> "piano", melody |-> "synth lead"],
     mixLevels |-> [drums |-> "0.8", bass |-> "0.7", chords |-> "0.6", melody |-> "0.9"]]

\* getFallbackMusicData, returned by the outer catch of generateMusic.
getFallbackMusicData(musicalAnalysis) ==
    [analysis |-> Merge(musicalAnalysis, [confidence |-> "0.5", source |-> "fallback"]),
     chords |-> [primaryProgression |-> <<"C", "Am", "F", "G">>, chordNotes |-> ChordNotes],
     genre |-> [primaryGenre |-> "pop",
                instrumentation |-> [drums |-> "acoustic kit", bass |-> "electric bass",
                                     chords |-> "piano", melody |-> "clean guitar"]],
     arrangement |-> [structure |-> <<"intro", "verse", "chorus", "outro">>,
                      mixLevels |-> [drums |-> "0.8", bass |-> "0.7",
                                     chords |-> "0.6", melody |-> "0.9"]]]

\* The bookkeeping of a step: the stage has run, and whether its reply failed.
Ran(g, stage, reply) ==
    [g EXCEPT !.ran = @ \cup {stage},
              !.failed = IF reply.ok THEN @ ELSE @ \cup {stage}]

\* Step 4.  An exception would leave processRecording.
GenAnalyze ==
    /\ gen.pc = "analyze"
    /\ \E reply \in AnalyzeReplies :
          LET r == AnalyzeResult(reply)
              g == Ran(gen, "analyze", reply)
          IN gen' = IF r.raised
                       THEN [g EXCEPT !.pc = "raised"]
                       ELSE [g EXCEPT !.pc = NextStage("analyze"), !.analysis = r.value]
    /\ UNCHANGED <<jobs, processingQueue, isProcessing, loops, sessions, emitted, runs, web, auth, cleared, uploads>>

\* Step 5: the analysis is spread into the values of the INSERT.
GenCreateSession ==
    /\ gen.pc = "createSession"
    /\ gen' = [gen EXCEPT !.pc = "analyst",
                          !.ran = @ \cup {"createSession"},
                          !.row = [tempo |-> gen.analysis.tempo,
                                   key |-> gen.analysis.key,
                                   status |-> "processing"]]
    /\ UNCHANGED <<jobs, processingQueue, isProcessing, loops, sessions, emitted, runs, web, auth, cleared, uploads>>

\* One agent of generateMusic settles.  An exception that leaves the agent
\* is caught by generateMusic, which returns the fallback data.
GenAgent(stage, replies, default, field, input, next) ==
    /\ gen.pc = stage
    /\ \E reply \in replies :
          LET r == AgentResult(reply, default)
              g == [Ran(gen, stage, reply) EXCEPT !.seen = Append(@, input)]
          IN gen' = IF r.raised
                       THEN [g EXCEPT !.pc = "done",
                                      !.result = getFallbackMusicData(gen.analysis)]
                       ELSE [g EXCEPT !.pc = next, ![field] = r.value]
    /\ UNCHANGED <<jobs, processingQueue, isProcessing, loops, sessions, emitted, runs, web, auth, cleared, uploads>>

runMusicAnalyst ==
    GenAgent("analyst", AnalystReplies, AnalystDefault(gen.analysis),
             "enhanced", gen.analysis, "composer")

runChordComposer ==
    GenAgent("composer", ComposerReplies, ComposerDefault,
             "chords", gen.enhanced, "specialist")

runGenreSpecialist ==
    GenAgent("specialist", SpecialistReplies, SpecialistDefault(gen.enhanced),
             "genre", gen.chords, "director")

runArrangementDirector ==
    GenAgent("director", DirectorReplies, DirectorDefault,
             "arrangement", gen.genre, "assemble")

\* generateMusic builds its result from the four outputs and returns.
generateMusic ==
    /\ gen.pc = "assemble"
    /\ gen' = [gen EXCEPT !.pc = "done",
                          !.result = [analysis |-> gen.enhanced, chords |-> gen.chords,
                                      genre |-> gen.genre,
                                      arrangement |-> gen.arrangement]]
    /\ UNCHANGED <<jobs, processingQueue, isProcessing, loops, sessions, emitted, runs, web, auth, cleared, uploads>>

NextGenerate ==
    \/ GenAnalyze
    \/ GenCreateSession
    \/ runMusicAnalyst
    \/ runChordComposer
    \/ runGenreSpecialist
    \/ runArrangementDirector
    \/ generateMusic

\* An attempt has reached step 4 with a transcription.
InitGenerate ==
    /\ QueueInit
    /\ web = WebIdle
    /\ auth = PinIdle
    /\ cleared = {}
    /\ uploads = 0
    /\ gen = [GenIdle EXCEPT !.pc = "analyze"]

SpecGenerate == InitGenerate /\ [][NextGenerate]_vars

(***************************************************************************)
(* The Twilio webhooks of routes/twilio.js.  The server keeps no record of *)
(* a call between two webhooks: what a handler knows is its request, the   *)
(* users table, the call_logs table and the job queue.  A handler runs     *)
(* while the worker loop is suspended.                                     *)
(***************************************************************************)

Endpoints == {"voice", "authenticate", "recording-complete", "recording-status"}

\* The CallSid of two telephone calls.
CallSids == {1, 2}

DigitChars == {"0", "1", "2", "3", "4", "5", "6", "7", "8", "9"}

\* Rows of the users table.
Users ==
    {[id |-> "u1", pin |-> <<"1", "2", "3", "4", "5", "6">>, active |-> TRUE],
     [id |-> "u2", pin |-> <<"2", "2", "2", "2", "2", "2">>, active |-> FALSE]}

\* Values of the Digits parameter: absent, five digits, six characters
\* with a letter, an unassigned PIN, and the PINs of the users.
DigitsInputs ==
    {<< >>,
     <<"1", "2", "3", "4", "5">>,
     <<"1", "2", "3", "4", "5", "a">>,
     <<"6", "5", "4", "3", "2", "1">>}
    \cup {u.pin : u \in Users}

Requests ==
    [endpoint : Endpoints, signed : BOOLEAN, callSid : CallSids,
     digits : DigitsInputs, userId : UserIds, recordingUrl : BOOLEAN,
     recordingStatus : {"completed", "failed"}, dbUp : BOOLEAN, ioUp : BOOLEAN]

NoRequest == [endpoint |-> "none"]
NoReply == [status |-> 0]

\* Mutant: the middleware lets every request through.
SignatureAcceptedAlways(mode, signed) == TRUE

\* validateTwilioSignature: next() in development, or when validateRequest
\* accepts the signature for the URL and the body.
SignatureAccepted(mode, signed) == mode = "development" \/ signed

Forbidden == [status |-> 403, say |-> << >>, gather |-> FALSE, record |-> FALSE]

\* res.type('text/xml'); res.send(twiml.toString())
Twiml(say, gather, record) ==
    [status |-> 200, say |-> say, gather |-> gather, record |-> record]

\* Mutant: the route has no catch; the exception leaves the async handler
\* and the request gets no response.
Uncaught(message) == NoReply

\* The catch of a voice route: twiml.say(message), then the res.send that
\* follows the try statement.
Caught(message) == Twiml(<<message>>, FALSE, FALSE)

\* Mutant: the test looks at the length only.
IsSixDigitsByLength(digits) == Len(digits) = 6

\* Digits && /^\d{6}$/.test(Digits)
IsSixDigits(digits) ==
    /\ digits # << >>
    /\ Len(digits) = 6
    /\ \A i \in 1..Len(digits) : digits[i] \in DigitChars

\* Mutant: the query does not look at is_active.
AnyHolders(pin) == {u \in Users : u.pin = pin}

\* SELECT ... FROM users WHERE pin = $1 AND is_active = true
ActiveHolders(pin) == {u \in Users : u.pin = pin /\ u.active}

\* AuthService.validatePIN: rejects a malformed pin, fails with the
\* database, and otherwise returns the active user holding the pin after
\* the UPDATE of last_login, or null after logFailedPINAttempt.
validatePIN(pin, dbUp) ==
    IF ~IsSixDigits(pin) \/ ~dbUp
       THEN [raised |-> TRUE, user |-> NoUser, failedAttempt |-> FALSE]
       ELSE IF ActiveHolders(pin) = {}
               THEN [raised |-> FALSE, user |-> NoUser, failedAttempt |-> TRUE]
               ELSE [raised |-> FALSE,
                     user |-> (CHOOSE u \in ActiveHolders(pin) : TRUE).id,
                     failedAttempt |-> FALSE]

\* What a call of validatePIN leaves behind: the warning of
\* logFailedPINAttempt, or the new last_login of the user.
Validated(w, v) ==
    [w EXCEPT !.validations = @ + 1,
              !.failedAttempts = IF v.failedAttempt THEN @ + 1 ELSE @,
              !.lastLogin = IF v.user # NoUser
                               THEN [@ EXCEPT ![v.user] = @ + 1]
                               ELSE @]

FormatMessage == "Invalid PIN format. Please call back and enter a 6-digit number."
AuthMessage == "Invalid PIN. Please check your PIN and try again."

\* twilioService.logCall: one row of call_logs; a failing INSERT is logged
\* and swallowed.
LogCall(log, callSid, action, userId, dbUp) ==
    IF dbUp
       THEN log \cup {[callSid |-> callSid, action |-> action, userId |-> userId]}
       ELSE log

\* The bookkeeping shared by the handlers: the request and its response.
Answered(w, r, reply) ==
    [w EXCEPT !.handled = @ + 1, !.request = r, !.reply = reply]

\* A request stopped by validateTwilioSignature.
RejectUnsigned(r) ==
    /\ ~SignatureAccepted(web.mode, r.signed)
    /\ web' = Answered(web, r, Forbidden)
    /\ UNCHANGED <<jobs, processingQueue, isProcessing, loops, sessions, emitted,
                   runs, gen, auth, cleared, uploads>>

\* POST /voice
handleVoice(r) ==
    /\ r.endpoint = "voice"
    /\ SignatureAccepted(web.mode, r.signed)
    /\ web' = [Answered(web, r, Twiml(<<"Welcome to Hum It Out!",
                                         "I didn't receive your PIN.">>, TRUE, FALSE))
                 EXCEPT !.callLog = LogCall(@, r.callSid, "incoming_call", NoUser, r.dbUp)]
    /\ UNCHANGED <<jobs, processingQueue, isProcessing, loops, sessions, emitted,
                   runs, gen, auth, cleared, uploads>>

\* POST /authenticate
handleAuthenticate(r) ==
    /\ r.endpoint = "authenticate"
    /\ SignatureAccepted(web.mode, r.signed)
    /\ IF ~IsSixDigits(r.digits)
          THEN LET reply == Twiml(<<FormatMessage>>, FALSE, FALSE) IN
               web' = [Answered(web, r, reply)
                         EXCEPT !.callLog = LogCall(@, r.callSid, "pin_failure", NoUser, r.dbUp),
                                !.rejected.format = reply]
          ELSE LET v == validatePIN(r.digits, r.dbUp) IN
               IF v.raised
                  THEN web' = [Validated(Answered(web, r, Caught("Sorry, there was a technical issue during authentication.")), v)
                                 EXCEPT !.callLog = LogCall(@, r.callSid, "pin_failure", NoUser, r.dbUp)]
                  ELSE IF v.user = NoUser
                          THEN LET reply == Twiml(<<AuthMessage>>, FALSE, FALSE) IN
                               web' = [Validated(Answered(web, r, reply), v)
                                         EXCEPT !.callLog = LogCall(@, r.callSid, "pin_failure", NoUser, r.dbUp),
                                                !.rejected.auth = reply]
                          ELSE web' = [Validated(Answered(web, r, Twiml(<<"Welcome back!",
                                                                           "Thank you for recording.">>,
                                                                         FALSE, TRUE)), v)
                                         EXCEPT !.callLog = LogCall(@, r.callSid, "pin_success", v.user, r.dbUp),
                                                !.records[r.callSid] = @ + 1]
    /\ UNCHANGED <<jobs, processingQueue, isProcessing, loops, sessions, emitted,
                   runs, gen, auth, cleared, uploads>>

\* Mutant: the handler does not look at RecordingUrl.
RecordingUrlIgnored(recordingUrl) == TRUE

\* if (!RecordingUrl) throw new Error('No recording URL provided')
RecordingUrlGiven(recordingUrl) == recordingUrl

\* POST /recording-complete without RecordingUrl: the handler throws and
\* its catch answers.
handleRecordingCompleteMissing(r) ==
    /\ r.endpoint = "recording-complete"
    /\ SignatureAccepted(web.mode, r.signed)
    /\ ~RecordingUrlGiven(r.recordingUrl)
    /\ web' = Answered(web, r, Caught("There was an issue processing your recording."))
    /\ UNCHANGED <<jobs, processingQueue, isProcessing, loops, sessions, emitted,
                   runs, gen, auth, cleared, uploads>>

\* POST /recording-complete: log, queue the job, answer.
handleRecordingComplete(r) ==
    /\ r.endpoint = "recording-complete"
    /\ SignatureAccepted(web.mode, r.signed)
    /\ RecordingUrlGiven(r.recordingUrl)
    /\ Enqueue([type |-> "process_recording", userId |-> r.userId,
                callSid |-> r.callSid, sessionId |-> 0, phoneNumber |-> TRUE,
                status |-> "queued", attempts |-> 0])
    /\ web' = [Answered(web, r, Twiml(<<"Perfect! Your recording is being processed.">>,
                                      FALSE, FALSE))
                 EXCEPT !.callLog = LogCall(@, r.callSid, "recording_complete", r.userId, r.dbUp)]
    /\ UNCHANGED <<gen, auth, cleared, uploads>>

\* ProcessingService.handleRecordingFailure: the UPDATE of the session,
\* whose failure is logged and swallowed, then the processing_failed event
\* for the room of the user; an emit that raises is caught by the route.
handleRecordingFailure(w, userId, callSid, dbUp, ioUp) ==
    /\ sessions' = IF dbUp THEN MarkFailed(sessions, callSid, userId) ELSE sessions
    /\ web' = [w EXCEPT !.failurePaths = @ + 1,
                        !.failureEvents = IF EmitsTo(userId) /\ ioUp THEN @ + 1 ELSE @,
                        !.failedCalls = IF EmitsTo(userId) /\ ioUp
                                           THEN @ \cup {[callSid |-> callSid,
                                                         userId |-> userId]}
                                           ELSE @]

\* Mutant: every status callback is taken for a failure.
RecordingFailedAlways(recordingStatus) == TRUE

\* if (RecordingStatus === 'failed')
RecordingFailed(recordingStatus) == recordingStatus = "failed"

\* POST /recording-status
handleRecordingStatus(r) ==
    /\ r.endpoint = "recording-status"
    /\ SignatureAccepted(web.mode, r.signed)
    /\ LET w == Answered(web, r, [status |-> 200, say |-> << >>,
                                  gather |-> FALSE, record |-> FALSE])
       IN IF RecordingFailed(r.recordingStatus)
             THEN handleRecordingFailure(w, r.userId, r.callSid, r.dbUp, r.ioUp)
             ELSE web' = w /\ UNCHANGED sessions
    /\ UNCHANGED <<jobs, processingQueue, isProcessing, loops, emitted, runs, gen, auth, cleared, uploads>>

\* The parameters that an endpoint does not read, those of a request that
\* is not signed, and the collaborators that a request does not call, have
\* one value.
Reads(r) ==
    /\ ~r.signed => /\ r.digits = << >>
                    /\ r.userId = NoUser
                    /\ r.recordingUrl
                    /\ r.recordingStatus = "completed"
                    /\ r.dbUp
    /\ r.endpoint # "authenticate" => r.digits = << >>
    /\ r.endpoint \notin {"recording-complete", "recording-status"} => r.userId = NoUser
    /\ r.endpoint # "recording-complete" => r.recordingUrl
    /\ r.endpoint # "recording-status" => r.recordingStatus = "completed"
    /\ (r.endpoint = "recording-complete" /\ ~r.recordingUrl) => r.dbUp
    /\ (r.endpoint = "recording-status" /\ r.recordingStatus # "failed") => r.dbUp
    /\ (r.endpoint # "recording-status" \/ r.recordingStatus # "failed"
        \/ r.userId = NoUser) => r.ioUp

\* The only failure of a collaborator is that of the database under
\* validatePIN.
Canonical(r) ==
    /\ Reads(r)
    /\ r.ioUp
    /\ (r.endpoint # "authenticate" \/ ~IsSixDigits(r.digits)) => r.dbUp

\* The requests that may arrive now.
Arrivals == {r \in Requests : Canonical(r)}

\* A request is dispatched to its route.
Arrives(r) ==
    /\ web.handled < MaxRequests
    /\ Quiescent

WebInit(mode) ==
    [mode |-> mode, handled |-> 0, request |-> NoRequest, reply |-> NoReply,
     callLog |-> {}, validations |-> 0, records |-> [c \in CallSids |-> 0],
     rejected |-> [format |-> NoReply, auth |-> NoReply],
     failurePaths |-> 0, failureEvents |-> 0, failedCalls |-> {},
     failedAttempts |-> 0, lastLogin |-> [u \in {x.id : x \in Users} |-> 0]]

InitWeb ==
    /\ QueueInit
    /\ gen = GenIdle
    /\ auth = PinIdle
    /\ cleared = {}
    /\ uploads = 0
    /\ \E mode \in {"production", "development"} : web = WebInit(mode)

\* The webhooks, and a worker whose pipeline does not fail.
NextWeb ==
    \/ \E r \in Arrivals : Arrives(r) /\ RejectUnsigned(r)
    \/ \E r \in Arrivals : Arrives(r) /\ handleVoice(r)
    \/ \E r \in Arrivals : Arrives(r) /\ handleAuthenticate(r)
    \/ \E r \in Arrivals : Arrives(r) /\ handleRecordingCompleteMissing(r)
    \/ \E r \in Arrivals : Arrives(r) /\ handleRecordingComplete(r)
    \/ \E r \in Arrivals : Arrives(r) /\ handleRecordingStatus(r)
    \/ \E l \in 1..Len(loops) : WhileShift(l)
    \/ \E l \in 1..Len(loops) : WhileExit(l)
    \/ \E l \in 1..Len(loops) : ProcessJobStart(l)
    \/ \E l \in 1..Len(loops) : DownloadAudioReturns(l)
    \/ \E l \in 1..Len(loops) : ValidateAudioFileReturns(l)
    \/ \E l \in 1..Len(loops) : TranscribeAudioReturns(l)
    \/ \E l \in 1..Len(loops) : AnalyzeMusicalElements(l)
    \/ \E l \in 1..Len(loops) : CreateSessionReturns(l)
    \/ \E l \in 1..Len(loops) : GenerateMusic(l)
    \/ \E l \in 1..Len(loops) : GenerateAudioFilesReturns(l)
    \/ \E l \in 1..Len(loops) : SaveResultsUpdateReturns(l)
    \/ \E l \in 1..Len(loops) : SaveResultsInsertReturns(l)
    \/ \E l \in 1..Len(loops) : SendSMSNotificationReturns(l)
    \/ \E l \in 1..Len(loops) : Cleanup(l)
    \/ \E l \in 1..Len(loops) : ProcessJobComplete(l)

SpecWeb == InitWeb /\ [][NextWeb]_vars

\* The requests that may arrive while the database or the socket server
\* is failing.
FaultArrivals == {r \in Requests : Reads(r)}

FaultArrives(r) ==
    /\ web.handled < MaxFaultRequests
    /\ Quiescent

\* The server after a restart: the queue is empty, and the sessions table
\* holds the row of an earlier recording of call 1.
InitWebFaults ==
    /\ jobs = << >>
    /\ processingQueue = << >>
    /\ isProcessing = FALSE
    /\ loops = << >>
    /\ \E status \in {"processing", "completed"} :
          sessions = <<[callSid |-> 1, userId |-> "u1", status |-> status]>>
    /\ emitted = << >>
    /\ runs = << >>
    /\ gen = GenIdle
    /\ auth = PinIdle
    /\ cleared = {}
    /\ uploads = 0
    /\ \E mode \in {"production", "development"} : web = WebInit(mode)

\* The webhooks with failing collaborators; the worker gets as far as the
\* download of the first job.
NextWebFaults ==
    \/ \E r \in FaultArrivals : FaultArrives(r) /\ RejectUnsigned(r)
    \/ \E r \in FaultArrivals : FaultArrives(r) /\ handleVoice(r)
    \/ \E r \in FaultArrivals : FaultArrives(r) /\ handleAuthenticate(r)
    \/ \E r \in FaultArrivals : FaultArrives(r) /\ handleRecordingCompleteMissing(r)
    \/ \E r \in FaultArrivals : FaultArrives(r) /\ handleRecordingComplete(r)
    \/ \E r \in FaultArrivals : FaultArrives(r) /\ handleRecordingStatus(r)
    \/ \E l \in 1..Len(loops) : WhileShift(l)
    \/ \E l \in 1..Len(loops) : ProcessJobStart(l)

SpecWebFaults == InitWebFaults /\ [][NextWebFaults]_vars

(***************************************************************************)
(* AuthService.generateUniquePIN and rotatePIN                             *)
(***************************************************************************)

MAX_ATTEMPTS == 10

\* Values of crypto.randomBytes(3).readUIntBE(0, 3): below 2^24.
RawDraws == {42, 123456, 1123456, 222222, 16777215}

\* Number.prototype.toString of a natural number.
RECURSIVE NumberToString(_)
NumberToString(n) ==
    LET digit == <<"0", "1", "2", "3", "4", "5", "6", "7", "8", "9">>[(n % 10) + 1]
    IN IF n < 10 THEN <<digit>> ELSE Append(NumberToString(n \div 10), digit)

\* String.prototype.padStart with a pad of one character.
RECURSIVE PadStart(_, _, _)
PadStart(s, len, c) == IF Len(s) >= len THEN s ELSE PadStart(<<c>> \o s, len, c)

\* Mutant: the loop runs once more.
RetriesInclusive(attempts) == attempts <= MAX_ATTEMPTS

\* while (attempts < MAX_ATTEMPTS)
Retries(attempts) == attempts < MAX_ATTEMPTS

\* rotatePIN(userId) calls generateUniquePIN.
rotatePIN(userId) ==
    /\ auth.pc = "idle"
    /\ auth.rotations < MaxRotations
    /\ auth' = [auth EXCEPT !.pc = "draw", !.userId = userId, !.attempts = 0,
                            !.draws = 0, !.candidate = << >>, !.outcome = "none",
                            !.result = << >>, !.before = auth.pins,
                            !.rotations = @ + 1]
    /\ UNCHANGED <<jobs, processingQueue, isProcessing, loops, sessions, emitted,
                   runs, gen, web, cleared, uploads>>

\* The loop test holds: pin = raw % 1000000, paddedPin = padStart(6, '0').
DrawCandidate(raw) ==
    /\ auth.pc = "draw"
    /\ Retries(auth.attempts)
    /\ auth' = [auth EXCEPT !.pc = "check", !.draws = @ + 1,
                            !.candidate = PadStart(NumberToString(raw % 1000000), 6, "0")]
    /\ UNCHANGED <<jobs, processingQueue, isProcessing, loops, sessions, emitted,
                   runs, gen, web, cleared, uploads>>

\* SELECT id FROM users WHERE pin = $1: return paddedPin, or attempts++.
CheckUnique ==
    /\ auth.pc = "check"
    /\ IF \A u \in DOMAIN auth.pins : auth.pins[u] # auth.candidate
          THEN auth' = [auth EXCEPT !.pc = "update", !.outcome = "returned",
                                    !.result = auth.candidate]
          ELSE auth' = [auth EXCEPT !.pc = "draw", !.attempts = @ + 1]
    /\ UNCHANGED <<jobs, processingQueue, isProcessing, loops, sessions, emitted,
                   runs, gen, web, cleared, uploads>>

\* The loop test fails: throw new Error('Unable to generate unique PIN ...'),
\* which leaves rotatePIN before its UPDATE.
GiveUp ==
    /\ auth.pc = "draw"
    /\ ~Retries(auth.attempts)
    /\ auth' = [auth EXCEPT !.pc = "idle", !.outcome = "raised"]
    /\ UNCHANGED <<jobs, processingQueue, isProcessing, loops, sessions, emitted,
                   runs, gen, web, cleared, uploads>>

\* UPDATE users SET pin = $1 WHERE id = $2
UpdateUser ==
    /\ auth.pc = "update"
    /\ auth' = [auth EXCEPT !.pc = "idle", !.pins[auth.userId] = auth.result]
    /\ UNCHANGED <<jobs, processingQueue, isProcessing, loops, sessions, emitted,
                   runs, gen, web, cleared, uploads>>

InitPin ==
    /\ QueueInit
    /\ gen = GenIdle
    /\ web = WebIdle
    /\ auth = PinIdle
    /\ cleared = {}
    /\ uploads = 0

NextPin ==
    \/ \E userId \in {"u1", "u2"} : rotatePIN(userId)
    \/ \E raw \in RawDraws : DrawCandidate(raw)
    \/ CheckUnique
    \/ GiveUp
    \/ UpdateUser

SpecPin == InitPin /\ [][NextPin]_vars

(***************************************************************************)
(* Concurrent requests that generate a PIN: /refresh-pin and rotatePIN for *)
(* u1 and u2, /register for the new user u3.  Each request is a call of    *)
(* generateUniquePIN followed by one write to the users table.            *)
(***************************************************************************)

\* Mutant: the users table has no UNIQUE constraint on pin.
UniqueMissing(pins, userId, pin) == TRUE

\* pin VARCHAR(6) UNIQUE NOT NULL: the write is accepted when no other row
\* holds the pin.
UniqueAllows(pins, userId, pin) ==
    \A u \in DOMAIN pins : u # userId => pins[u] # pin

\* A request arrives and calls generateUniquePIN.
BeginCall(p, userId) ==
    /\ auth.calls[p].pc = "idle"
    /\ auth.started < MaxRotations
    /\ auth' = [auth EXCEPT !.started = @ + 1,
                            !.calls[p] = [pc |-> "draw", userId |-> userId,
                                          attempts |-> 0, candidate |-> << >>,
                                          outcome |-> "none"]]
    /\ UNCHANGED <<jobs, processingQueue, isProcessing, loops, sessions, emitted,
                   runs, gen, web, cleared, uploads>>

\* One turn of the loop of generateUniquePIN: the draw and its SELECT, or
\* the throw after the last attempt.
Generate(p, raw) ==
    LET paddedPin == PadStart(NumberToString(raw % 1000000), 6, "0") IN
    /\ auth.calls[p].pc = "draw"
    /\ auth' = IF ~Retries(auth.calls[p].attempts)
                  THEN [auth EXCEPT !.calls[p].pc = "idle",
                                    !.calls[p].outcome = "raised"]
                  ELSE IF \A u \in DOMAIN auth.pins : auth.pins[u] # paddedPin
                          THEN [auth EXCEPT !.calls[p].pc = "write",
                                            !.calls[p].candidate = paddedPin]
                          ELSE [auth EXCEPT !.calls[p].attempts = @ + 1]
    /\ UNCHANGED <<jobs, processingQueue, isProcessing, loops, sessions, emitted,
                   runs, gen, web, cleared, uploads>>

\* UPDATE users SET pin = $1 WHERE id = $2, or the INSERT of /register:
\* stored, or refused by the constraint and answered 500.
Store(p) ==
    LET c == auth.calls[p] IN
    /\ c.pc = "write"
    /\ auth' = IF UniqueAllows(auth.pins, c.userId, c.candidate)
                  THEN [auth EXCEPT !.pins[c.userId] = c.candidate,
                                    !.calls[p].pc = "idle",
                                    !.calls[p].outcome = "stored"]
                  ELSE [auth EXCEPT !.calls[p].pc = "idle",
                                    !.calls[p].outcome = "refused"]
    /\ UNCHANGED <<jobs, processingQueue, isProcessing, loops, sessions, emitted,
                   runs, gen, web, cleared, uploads>>

\* The users u1 and u2 are registered, u3 is not; two requests can be
\* served at a time.
InitRace ==
    /\ QueueInit
    /\ gen = GenIdle
    /\ web = WebIdle
    /\ cleared = {}
    /\ uploads = 0
    /\ auth = [pins |-> [u \in {"u1", "u2", "u3"} |->
                           IF u = "u3" THEN << >> ELSE PinIdle.pins[u]],
               started |-> 0,
               calls |-> [p \in {1, 2} |->
                            [pc |-> "idle", userId |-> NoUser, attempts |-> 0,
                             candidate |-> << >>, outcome |-> "none"]]]

NextRace ==
    \/ \E p \in {1, 2}, userId \in {"u1", "u2", "u3"} : BeginCall(p, userId)
    \/ \E p \in {1, 2}, raw \in RawDraws : Generate(p, raw)
    \/ \E p \in {1, 2} : Store(p)

SpecRace == InitRace /\ [][NextRace]_vars

(***************************************************************************)
(* POST /api/dashboard/sessions/:sessionId/regenerate, behind authMiddleware *)
(***************************************************************************)

\* The session named in the path, the user of the token, the database.
DashRequests == [sessionId : 1..3, userId : {"u1", "u2"}, dbUp : BOOLEAN]

\* Mutant: the query does not look at user_id.
Exists(rows, sessionId, userId) == sessionId \in 1..Len(rows)

\* SELECT * FROM sessions WHERE id = $1 AND user_id = $2 returned a row.
Owned(rows, sessionId, userId) ==
    /\ sessionId \in 1..Len(rows)
    /\ rows[sessionId].userId = userId

\* The route: 500 from its catch, 404 without a row, or the job and 200.
handleRegenerate(r) ==
    /\ web.handled < MaxRequests
    /\ Quiescent
    /\ IF r.dbUp /\ Owned(sessions, r.sessionId, r.userId)
          THEN /\ Enqueue([type |-> "regenerate_session", userId |-> r.userId,
                           callSid |-> 0, sessionId |-> r.sessionId,
                           phoneNumber |-> FALSE, status |-> "queued",
                           attempts |-> 0])
               /\ web' = Answered(web, r, [status |-> 200])
          ELSE /\ web' = Answered(web, r, [status |-> IF r.dbUp THEN 404 ELSE 500])
               /\ UNCHANGED <<jobs, processingQueue, isProcessing, loops, sessions,
                              emitted, runs>>
    /\ UNCHANGED <<gen, auth, cleared, uploads>>

\* The server after a restart: the sessions table holds a completed session
\* of each user.
InitDash ==
    /\ jobs = << >>
    /\ processingQueue = << >>
    /\ isProcessing = FALSE
    /\ loops = << >>
    /\ sessions = <<[callSid |-> 1, userId |-> "u1", status |-> "completed"],
                    [callSid |-> 2, userId |-> "u2", status |-> "completed"]>>
    /\ emitted = << >>
    /\ runs = << >>
    /\ gen = GenIdle
    /\ auth = PinIdle
    /\ cleared = {}
    /\ uploads = 0
    /\ web = WebInit("production")

\* The route and the worker on regeneration jobs.
NextDash ==
    \/ \E r \in DashRequests : handleRegenerate(r)
    \/ \E l \in 1..Len(loops) : WhileShift(l)
    \/ \E l \in 1..Len(loops) : WhileExit(l)
    \/ \E l \in 1..Len(loops) : ProcessJobStart(l)
    \/ \E l \in 1..Len(loops) : RegenerateSession(l)
    \/ \E l \in 1..Len(loops) : CatchRetry(l)
    \/ \E l \in 1..Len(loops) : CatchFail(l)
    \/ \E l \in 1..Len(loops) : FailureEmit(l)

SpecDash == InitDash /\ [][NextDash]_vars

(***************************************************************************)
(* Properties                                                              *)
(***************************************************************************)

JobIds == 1..Len(jobs)

Processing == {j \in JobIds : jobs[j].status = "processing"}

Terminal(j) == jobs[j].status \in {"completed", "failed"}

\* C1: at any instant at most one job has status processing, and at most
\* one processQueue invocation is inside its loop, however the enqueue calls
\* interleave with the suspension points of the worker loop.
C1_AtMostOneProcessing ==
    /\ Cardinality(Processing) <= 1
    /\ Len(loops) <= 1

\* C1 witness: a job was enqueued while the loop was suspended in the
\* pipeline of another job, which is still processing.
C1_Witness ==
    \E j, k \in JobIds :
        /\ jobs[j].status = "processing"
        /\ JobPc(j) \in SuspendedPcs
        /\ jobs[k].status = "queued"
        /\ InQueue(k)

\* C2: attempts starts at 0, grows by exactly 1 with each failed attempt and
\* with nothing else, never exceeds maxAttempts, and a job whose attempts
\* equal maxAttempts is terminally failed and is not in the queue.
C2_AttemptsInv ==
    \A j \in JobIds :
        /\ jobs[j].attempts \in 0..maxAttempts
        /\ jobs[j].attempts = maxAttempts =>
              jobs[j].status = "failed" /\ ~InQueue(j)

C2_AttemptsStep ==
    \A j \in 1..Len(jobs') :
        IF j > Len(jobs)
           THEN jobs'[j].attempts = 0
           ELSE /\ jobs'[j].attempts # jobs[j].attempts =>
                      /\ jobs'[j].attempts = jobs[j].attempts + 1
                      /\ JobPc(j) = "catch"
                /\ (JobPc(j) = "catch" /\ JobPc(j)' # "catch") =>
                      jobs'[j].attempts = jobs[j].attempts + 1

C2_Attempts == [](C2_AttemptsInv) /\ [][C2_AttemptsStep]_vars

\* C2 witness: a job has failed maxAttempts times and is terminally failed.
C2_Witness ==
    \E j \in JobIds :
        /\ jobs[j].attempts = maxAttempts
        /\ jobs[j].status = "failed"
        /\ runs[j] = maxAttempts

\* C3: every enqueued job eventually is completed or terminally failed, it
\* never leaves that status, and its pipeline is executed at most
\* maxAttempts times.
C3_EventuallyTerminal ==
    /\ \A j \in 1..MaxJobs : [](j <= Len(jobs) => <>(j <= Len(jobs) /\ Terminal(j)))
    /\ [](\A j \in JobIds : runs[j] <= maxAttempts)
    /\ [][\A j \in JobIds : Terminal(j) => jobs'[j].status = jobs[j].status]_vars

\* C3 witness: one job ended terminally failed and another one completed.
C3_Witness ==
    \E j, k \in JobIds :
        /\ jobs[j].status = "failed" /\ JobPc(j) = "none"
        /\ jobs[k].status = "completed"

\* C4 as amended: in the scenario every job ends completed, with attempts
\* equal to 2, the number of its failed attempts.
C4_EndsCompletedAfterTwoFailures ==
    \A j \in 1..MaxJobs :
        [](j <= Len(jobs) =>
              <>[](/\ j <= Len(jobs)
                   /\ jobs[j].status = "completed"
                   /\ jobs[j].attempts = 2
                   /\ runs[j] = 3))

\* C4 as stated: in the scenario a job that has ended is completed with
\* attempts equal to 3.
C4_AsStated ==
    \A j \in JobIds :
        Terminal(j) => jobs[j].status = "completed" /\ jobs[j].attempts = 3

\* C4 witness: a job completed on its third attempt.
C4_Witness ==
    \E j \in JobIds : jobs[j].status = "completed" /\ runs[j] = 3

\* C5: the queue is first in, first out.  Every step leaves the queue alone,
\* appends one job at its tail, or removes its head, and the attempt that
\* starts is the one of the removed head; a job that fails with attempts
\* left goes behind every job that waits at that moment.
C5_FifoStep ==
    /\ \/ processingQueue' = processingQueue
       \/ \E j \in 1..Len(jobs') : processingQueue' = Append(processingQueue, j)
       \/ IF processingQueue = << >>
             THEN FALSE
             ELSE /\ processingQueue' = Tail(processingQueue)
                  /\ \E j \in JobIds : j = Head(processingQueue) /\ JobPc(j)' = "processJob"
    /\ \A j \in JobIds :
          /\ (JobPc(j) = "none" /\ JobPc(j)' # "none") =>
                (IF processingQueue = << >> THEN FALSE ELSE j = Head(processingQueue))
          /\ (jobs[j].status # "retrying" /\ jobs'[j].status = "retrying") =>
                processingQueue' = Append(processingQueue, j)

C5_Fifo == [][C5_FifoStep]_vars

\* C5 witness: a job enqueued after job j runs while j, which failed in the
\* meantime, waits for its retry.
C5_Witness ==
    \E j, k \in JobIds :
        /\ j < k
        /\ jobs[j].status = "retrying" /\ InQueue(j)
        /\ jobs[k].status = "processing" /\ jobs[k].attempts = 0

\* C6: a non-empty queue always has an active worker loop, and the active
\* flag is set exactly while a loop runs.
C6_QueueHasWorker ==
    /\ Len(processingQueue) > 0 => isProcessing
    /\ isProcessing <=> Len(loops) = 1

\* C6 witness: the loop has returned and a later enqueue restarted it.
C6_Witness ==
    /\ \E j \in JobIds : Terminal(j) /\ JobPc(j) = "none"
    /\ \E k \in JobIds : jobs[k].status = "queued" /\ runs[k] = 0
    /\ Len(processingQueue) = 1
    /\ \E l \in 1..Len(loops) : loops[l].pc = "while"
    /\ \A k \in JobIds : jobs[k].status \in {"queued", "completed", "failed"}

\* The session rows associated with job j.
AssociatedSessions(j) ==
    IF jobs[j].type = "process_recording"
       THEN {r \in 1..Len(sessions) :
                sessions[r].callSid = jobs[j].callSid /\ sessions[r].userId = jobs[j].userId}
       ELSE {jobs[j].sessionId}

\* C7 as stated: once handleJobFailure has returned for a terminally failed
\* job of a user, a session of that job is recorded with status failed.
C7_AsStated ==
    \A j \in JobIds :
        (jobs[j].userId # NoUser /\ jobs[j].status = "failed" /\ JobPc(j) = "none") =>
            \E r \in AssociatedSessions(j) : sessions[r].status = "failed"

\* C8: a job with a user id gets no terminal event while it is queued,
\* processing or retrying, exactly one completion event and no failure event
\* when it is completed, and exactly one failure event and no completion
\* event when it is terminally failed and handleJobFailure has published.
C8_OneTerminalEvent ==
    \A j \in JobIds :
        jobs[j].userId # NoUser =>
            /\ emitted[j].complete + emitted[j].failed <= 1
            /\ emitted[j].complete = 1 <=> jobs[j].status = "completed"
            /\ emitted[j].failed = 1 => jobs[j].status = "failed"
            /\ (jobs[j].status = "failed" /\ JobPc(j) \notin {"failUpdate", "failEmit"})
                  => emitted[j].failed = 1

\* C8 witness: a job of a user failed twice, was retried, and completed.
C8_Witness ==
    \E j \in JobIds :
        /\ jobs[j].userId # NoUser
        /\ jobs[j].status = "completed"
        /\ jobs[j].attempts = 2
        /\ emitted[j].complete = 1

\* C9 as stated: when the pipeline of a job has returned, the job is marked
\* completed with attempts unchanged, whatever publishing does.
C9_AsStatedStep ==
    \A j \in JobIds :
        (JobPc(j) = "emitComplete" /\ JobPc(j)' # "emitComplete") =>
            /\ jobs'[j].status = "completed"
            /\ jobs'[j].attempts = jobs[j].attempts

C9_AsStated == [][C9_AsStatedStep]_vars

\* C10: a failure of sendDownloadLinks never reaches the catch of
\* processQueue; the attempt goes on to cleanup with its session completed,
\* and the job is then marked completed with the same attempts and is not
\* queued again.
C10_NotifySwallowedInv ==
    \A l \in 1..Len(loops) :
        /\ loops[l].error # "notify"
        /\ loops[l].smsFailed =>
              /\ loops[l].pc \in {"cleanup", "emitComplete"}
              /\ sessions[loops[l].session].status = "completed"
              /\ jobs[loops[l].job].status = "processing"
              /\ ~InQueue(loops[l].job)

C10_NotifySwallowedStep ==
    \A l \in 1..Len(loops), j \in JobIds :
        (loops[l].smsFailed /\ loops[l].job = j) =>
            /\ jobs'[j].attempts = jobs[j].attempts
            /\ ~InQueue(j)'
            /\ sessions'[loops[l].session].status = "completed"
            /\ jobs'[j].status # jobs[j].status => jobs'[j].status = "completed"
            /\ JobPc(j)' \in {"cleanup", "emitComplete", "none"}
            /\ JobPc(j)' = "none" => jobs'[j].status = "completed"

C11_HandlerSwallowsStep ==
    /\ \A l \in 1..Len(loops), j \in JobIds :
          (loops[l].job = j /\ loops[l].pc \in {"failUpdate", "failSMS"}) =>
             /\ Len(loops') = Len(loops)
             /\ \/ loops'[l] = loops[l]
                \/ loops[l].pc = "failUpdate" /\ loops'[l].pc = "failEmit"
                \/ loops[l].pc = "failSMS" /\ loops'[l].pc = "while"
             /\ jobs'[j].status = "failed"
    /\ \A j \in JobIds :
          (jobs[j].status = "failed" /\ jobs[j].attempts = maxAttempts) =>
             jobs'[j] = jobs[j]

C11_HandlerSwallows == [][C11_HandlerSwallowsStep]_vars

\* C11 witness: the UPDATE raised for a failed job of a user (its session row
\* was left unmarked), handleJobFailure has returned, and the loop is
\* processing the next job.
C11_Witness ==
    \E j, k \in JobIds :
        /\ jobs[j].status = "failed"
        /\ jobs[j].attempts = maxAttempts
        /\ JobPc(j) = "none"
        /\ jobs[j].userId # NoUser
        /\ \E r \in 1..Len(sessions) :
              /\ SessionMatches(sessions[r], jobs[j].callSid, jobs[j].userId)
              /\ sessions[r].status # "failed"
        /\ jobs[k].status = "processing"
        /\ runs[k] > 0
\* The places of processRecording, in the order of its statements.
Stages == <<"download", "validate", "transcribe", "analyze", "createSession",
            "generate", "files", "saveUpdate", "saveInsert", "notify", "cleanup">>

PipelinePcs == {Stages[i] : i \in 1..Len(Stages)}

\* C12: an exception in the pipeline takes the attempt straight to the catch
\* of processQueue with no other effect; the catch counts one failed attempt
\* and runs no stage; and the pipeline is only ever entered at download,
\* from the start of processJob.
C12_WholePipelineRetriedStep ==
    \A l \in 1..Len(loops), j \in JobIds :
        (loops[l].job = j /\ l <= Len(loops')) =>
            /\ (loops[l].pc \in PipelinePcs /\ loops'[l].pc = "catch") =>
                  /\ jobs' = jobs
                  /\ sessions' = sessions
                  /\ emitted' = emitted
                  /\ processingQueue' = processingQueue
            /\ (loops[l].pc = "catch" /\ loops'[l] # loops[l]) =>
                  /\ jobs'[j].attempts = jobs[j].attempts + 1
                  /\ loops'[l].pc \in {"while", "failUpdate", "failEmit"}
                  /\ sessions' = sessions
            /\ (loops[l].pc \notin PipelinePcs /\ loops'[l].pc \in PipelinePcs) =>
                  /\ loops[l].pc = "processJob"
                  /\ loops'[l].pc = "download"
                  /\ loops'[l].session = 0

C12_WholePipelineRetried == [][C12_WholePipelineRetriedStep]_vars

\* C12 witness: the first attempt of a job failed after createSession had
\* inserted a row, and the second attempt is downloading the recording.
C12_Witness ==
    \E j \in JobIds :
        /\ jobs[j].attempts = 1
        /\ runs[j] = 2
        /\ JobPc(j) = "download"
        /\ \E r \in 1..Len(sessions) : sessions[r].callSid = jobs[j].callSid
RECURSIVE IndexOf(_, _)
IndexOf(seq, x) ==
    IF seq = << >> THEN 0
    ELSE IF seq[Len(seq)] = x /\ IndexOf(SubSeq(seq, 1, Len(seq) - 1), x) = 0
         THEN Len(seq)
         ELSE IndexOf(SubSeq(seq, 1, Len(seq) - 1), x)

\* The stages that precede the return of createSession.
BeforeCreateSession == {"download", "validate", "transcribe", "analyze", "createSession"}

\* C13, the states: an attempt that has not passed createSession owns no
\* row; from generate to the UPDATE of saveResults it owns a row with status
\* processing; after that UPDATE its row is completed.
C13_StageOrderInv ==
    \A l \in 1..Len(loops) :
        /\ loops[l].pc \in BeforeCreateSession => loops[l].session = 0
        /\ loops[l].pc \in {"generate", "files", "saveUpdate"} =>
              /\ loops[l].session \in 1..Len(sessions)
              /\ sessions[loops[l].session].status = "processing"
        /\ loops[l].pc \in {"saveInsert", "notify", "cleanup"} =>
              /\ loops[l].session \in 1..Len(sessions)
              /\ sessions[loops[l].session].status = "completed"

\* C13, the steps: inside an attempt control moves from a stage to the next
\* stage of the fixed order only (NotifyUser being skipped for a job without
\* a phone number), and a row becomes completed only in the step that
\* follows the return of generateAudioFiles.
C13_StageOrderStep ==
    /\ \A l \in 1..Len(loops) :
          (l <= Len(loops') /\ loops[l].pc \in PipelinePcs
             /\ loops'[l].pc \in PipelinePcs /\ loops'[l].pc # loops[l].pc) =>
               \/ IndexOf(Stages, loops'[l].pc) = IndexOf(Stages, loops[l].pc) + 1
               \/ /\ loops[l].pc = "saveInsert"
                  /\ loops'[l].pc = "cleanup"
                  /\ \E j \in JobIds : loops[l].job = j /\ ~jobs[j].phoneNumber
    /\ \A r \in 1..Len(sessions) :
          (sessions[r].status # "completed" /\ sessions'[r].status = "completed") =>
              \E l \in 1..Len(loops) :
                  /\ loops[l].pc = "saveUpdate"
                  /\ loops[l].session = r
                  /\ sessions[r].status = "processing"
    /\ \A r \in 1..Len(sessions') :
          r > Len(sessions) =>
              /\ sessions'[r].status = "processing"
              /\ \E l \in 1..Len(loops) : loops[l].pc = "createSession"

C13_StageOrder == []C13_StageOrderInv /\ [][C13_StageOrderStep]_vars

\* C13 witness: an attempt has run every stage up to NotifyUser and its row
\* is completed.
C13_Witness ==
    \E l \in 1..Len(loops) :
        /\ loops[l].pc = "notify"
        /\ loops[l].session \in 1..Len(sessions)
        /\ sessions[loops[l].session].status = "completed"

AgentStages == {"analyst", "composer", "specialist", "director"}

\* C14: analyzeMusicalElements never raises; when its completion raised or
\* its content did not parse, the analysis is the default (tempo 120, key C,
\* mood neutral, genre pop), and the pipeline goes on to createSession.
C14_AnalyzeFallsBack ==
    /\ gen.pc # "raised"
    /\ "analyze" \in gen.ran => gen.pc # "analyze" /\ gen.analysis # Nothing
    /\ "analyze" \in gen.failed =>
          /\ gen.analysis.tempo = 120
          /\ gen.analysis.key = "C"
          /\ gen.analysis.mood = <<"neutral">>
          /\ gen.analysis.genres = <<"pop">>
    /\ (gen.ran = {"analyze"}) => gen.pc = "createSession"

\* C14 witness: the completion failed and createSession has inserted the
\* row with the default tempo and key.
C14_Witness ==
    /\ "analyze" \in gen.failed
    /\ gen.row # Nothing
    /\ gen.row.tempo = 120
    /\ gen.row.key = "C"

\* C15: an agent whose completion failed yields its own default, every
\* agent runs, each on the outputs of the agents before it, and the result
\* of generateMusic is assembled from the four outputs: generateMusic never
\* raises, whichever agents fail.
C15_AgentsFallBack ==
    /\ gen.pc # "raised"
    /\ "analyst" \in gen.failed =>
          gen.enhanced = Merge(gen.analysis,
                               [scale |-> "major", rhythmicPattern |-> "steady four-four",
                                melodicHints |-> "vocal melody detected",
                                confidence |-> "0.6"])
    /\ "composer" \in gen.failed =>
          gen.chords.primaryProgression = <<"C", "Am", "F", "G">>
    /\ "specialist" \in gen.failed =>
          /\ gen.genre.rhythmPattern = "steady four-four"
          /\ gen.genre.primaryGenre =
                IF "genres" \in DOMAIN gen.enhanced
                   THEN gen.enhanced.genres[1] ELSE "pop"
    /\ "director" \in gen.failed =>
          gen.arrangement.finalInstrumentation.melody = "synth lead"
    /\ gen.pc = "done" =>
          /\ AgentStages \subseteq gen.ran
          /\ gen.seen = <<gen.analysis, gen.enhanced, gen.chords, gen.genre>>
          /\ gen.result = [analysis |-> gen.enhanced, chords |-> gen.chords,
                           genre |-> gen.genre, arrangement |-> gen.arrangement]

\* C15 witness: all four agents failed and generateMusic has returned.
C15_Witness ==
    /\ gen.pc = "done"
    /\ AgentStages \subseteq gen.failed

\* A result that says it was produced by a fallback.
MarkedFallback(result) ==
    \/ "source" \in DOMAIN result /\ result.source = "fallback"
    \/ \E part \in DOMAIN result :
          /\ "source" \in DOMAIN result[part]
          /\ result[part].source = "fallback"

\* C16 as stated: when the composer failed, the result of generateMusic has
\* the chords C, Am, F, G and is marked as a fallback.
C16_AsStated ==
    (gen.pc = "done" /\ "composer" \in gen.failed) =>
        /\ gen.result.chords.primaryProgression = <<"C", "Am", "F", "G">>
        /\ MarkedFallback(gen.result)

\* The step is the handling of one webhook request.
Handles == web'.handled = web.handled + 1

\* C17: in production a request whose signature does not validate is
\* answered 403 whatever its endpoint, and neither the call log, the
\* Authenticator, the record instructions, the queue, the sessions nor the
\* failure path is touched; a request that passes is not answered 403.
C17_UnsignedRejectedStep ==
    Handles =>
        /\ (web.mode = "production" /\ ~web'.request.signed) =>
              /\ web'.reply.status = 403
              /\ web'.callLog = web.callLog
              /\ web'.validations = web.validations
              /\ web'.records = web.records
              /\ web'.rejected = web.rejected
              /\ web'.failurePaths = web.failurePaths
              /\ web'.failureEvents = web.failureEvents
              /\ jobs' = jobs
              /\ processingQueue' = processingQueue
              /\ loops' = loops
              /\ sessions' = sessions
              /\ emitted' = emitted
        /\ (web.mode = "development" \/ web'.request.signed) =>
              web'.reply.status = 200

C18_FormatRejectedStep ==
    (Handles /\ web'.request.endpoint = "authenticate" /\ web'.reply.status # 403) =>
        LET d == web'.request.digits IN
        (Len(d) # 6 \/ \E i \in 1..Len(d) : d[i] \notin DigitChars) =>
            /\ web'.reply.say = <<FormatMessage>>
            /\ ~web'.reply.record
            /\ ~web'.reply.gather
            /\ web'.validations = web.validations
            /\ web'.records = web.records

C18_FormatRejected == [][C18_FormatRejectedStep]_vars

\* C18 witness: five digits were submitted and the format message returned.
C18_Witness ==
    /\ web.request.endpoint = "authenticate"
    /\ web.request.digits = <<"1", "2", "3", "4", "5">>
    /\ web.reply.status = 200
    /\ web.reply.say = <<FormatMessage>>
    /\ web.validations = 0

\* C19 as stated: the response to malformed digits and the response to a
\* well-formed PIN that is not recognized are the same.
C19_AsStated ==
    (web.rejected.format.status # 0 /\ web.rejected.auth.status # 0) =>
        web.rejected.format = web.rejected.auth

\* C20 as stated: no call id receives a second record instruction.
C20_AsStated == \A c \in DOMAIN web.records : web.records[c] <= 1

\* C21 as stated: a process_recording job exists for a call and a user only
\* if the call log holds a successful authentication of that user on that
\* call, and a call with a rejected PIN has neither a record instruction
\* nor a job.
C21_AsStated ==
    /\ \A j \in JobIds :
          jobs[j].type = "process_recording" =>
              [callSid |-> jobs[j].callSid, action |-> "pin_success",
               userId |-> jobs[j].userId] \in web.callLog
    /\ \A c \in CallSids :
          (\E e \in web.callLog : e.callSid = c /\ e.action = "pin_failure") =>
              /\ web.records[c] = 0
              /\ \A j \in JobIds : jobs[j].callSid # c

\* C22: a recording-complete request that passed the signature check and
\* has no RecordingUrl creates no job and leaves the queue as it was; one
\* with a RecordingUrl appends exactly one process_recording job (queued,
\* no attempts, three allowed) with the user id and the call id of the
\* request to the jobs and to the queue, and is answered with the
\* acknowledgement.
C22_RecordingCompleteStep ==
    (Handles /\ web'.request.endpoint = "recording-complete" /\ web'.reply.status # 403) =>
        IF ~web'.request.recordingUrl
           THEN /\ jobs' = jobs
                /\ processingQueue' = processingQueue
                /\ loops' = loops
                /\ isProcessing' = isProcessing
                /\ web'.reply.status = 200
                /\ web'.reply.say = <<"There was an issue processing your recording.">>
           ELSE /\ Len(jobs') = Len(jobs) + 1
                /\ \A j \in 1..Len(jobs) : jobs'[j] = jobs[j]
                /\ jobs'[Len(jobs')].type = "process_recording"
                /\ jobs'[Len(jobs')].userId = web'.request.userId
                /\ jobs'[Len(jobs')].callSid = web'.request.callSid
                /\ jobs'[Len(jobs')].status = "queued"
                /\ jobs'[Len(jobs')].attempts = 0
                /\ maxAttempts = 3
                /\ processingQueue' = Append(processingQueue, Len(jobs'))
                /\ web'.reply.status = 200
                /\ web'.reply.say = <<"Perfect! Your recording is being processed.">>

C23_AlwaysAnsweredStep ==
    (/\ Handles
     /\ web'.request.endpoint \in {"voice", "authenticate", "recording-complete"}
     /\ (web.mode = "development" \/ web'.request.signed)) =>
        /\ web'.reply.status = 200
        /\ web'.reply.say # << >>

C23_AlwaysAnswered == [][C23_AlwaysAnsweredStep]_vars

\* C23 witness: the database was down under a well-formed PIN, validatePIN
\* raised, no row was logged, and the caller heard the apology.
C23_Witness ==
    /\ web.request.endpoint = "authenticate"
    /\ IsSixDigits(web.request.digits)
    /\ ~web.request.dbUp
    /\ web.callLog = {}
    /\ web.reply.status = 200
    /\ web.reply.say = <<"Sorry, there was a technical issue during authentication.">>

\* C24: a recording-status request that passed the signature check is
\* answered 200 whatever happens; with the status failed the failure path
\* runs in the same step, whether or not a job exists for the call: the
\* rows of the call and the user are marked failed when the database
\* answers, and the failure event is published to the room of the user when
\* the socket server does not raise; with any other status nothing changes
\* and nothing is enqueued.
C24_RecordingStatusStep ==
    (/\ Handles
     /\ web'.request.endpoint = "recording-status"
     /\ (web.mode = "development" \/ web'.request.signed)) =>
        /\ web'.reply.status = 200
        /\ jobs' = jobs
        /\ processingQueue' = processingQueue
        /\ loops' = loops
        /\ emitted' = emitted
        /\ web'.callLog = web.callLog
        /\ IF web'.request.recordingStatus = "failed"
              THEN /\ web'.failurePaths = web.failurePaths + 1
                   /\ Len(sessions') = Len(sessions)
                   /\ web'.request.dbUp =>
                         \A s \in 1..Len(sessions) :
                            IF /\ sessions[s].callSid = web'.request.callSid
                               /\ sessions[s].userId = web'.request.userId
                               THEN sessions'[s] = [sessions[s] EXCEPT !.status = "failed"]
                               ELSE sessions'[s] = sessions[s]
                   /\ ~web'.request.dbUp => sessions' = sessions
                   /\ web'.failureEvents =
                         IF web'.request.userId # NoUser /\ web'.request.ioUp
                            THEN web.failureEvents + 1
                            ELSE web.failureEvents
              ELSE /\ sessions' = sessions
                   /\ web'.failurePaths = web.failurePaths
                   /\ web'.failureEvents = web.failureEvents

C24_RecordingStatus == [][C24_RecordingStatusStep]_vars

\* C24 witness: no recording-complete request was received and no job
\* exists; the failed status of call 1 marked the row of user u1 failed,
\* the socket server raised, and the request was answered 200.
C24_Witness ==
    /\ jobs = << >>
    /\ web.handled = 1
    /\ web.request.endpoint = "recording-status"
    /\ web.request.recordingStatus = "failed"
    /\ web.request.userId = "u1"
    /\ ~web.request.ioUp
    /\ sessions[1].status = "failed"
    /\ web.failurePaths = 1
    /\ web.failureEvents = 0
    /\ web.reply.status = 200

\* C25: when the database answers, validatePIN called with six digits that
\* no active user holds records one failed attempt, updates no last_login
\* and returns null, so that the caller hears the same rejection for an
\* unassigned PIN and for the PIN of an inactive user; called with the PIN
\* of an active user it returns that user, whose last_login alone is
\* updated, and records no failed attempt.
C25_ValidatePinStep ==
    (/\ Handles
     /\ web'.request.endpoint = "authenticate"
     /\ (web.mode = "development" \/ web'.request.signed)
     /\ web'.request.dbUp
     /\ Len(web'.request.digits) = 6
     /\ \A i \in 1..6 : web'.request.digits[i] \in DigitChars) =>
        IF \E u \in Users : u.pin = web'.request.digits /\ u.active
           THEN \E u \in Users :
                   /\ u.pin = web'.request.digits
                   /\ u.active
                   /\ web'.lastLogin = [web.lastLogin EXCEPT ![u.id] = @ + 1]
                   /\ web'.failedAttempts = web.failedAttempts
                   /\ web'.reply.record
                   /\ [callSid |-> web'.request.callSid, action |-> "pin_success",
                       userId |-> u.id] \in web'.callLog
           ELSE /\ web'.failedAttempts = web.failedAttempts + 1
                /\ web'.lastLogin = web.lastLogin
                /\ web'.reply = Twiml(<<AuthMessage>>, FALSE, FALSE)
                /\ web'.records = web.records

C25_ValidatePin == [][C25_ValidatePinStep]_vars

\* C25 witness: the PIN of the inactive user u2 and then an unassigned PIN
\* were submitted; both were recorded as failed attempts and rejected, and
\* no last_login changed.
C25_Witness ==
    /\ web.handled = 2
    /\ web.failedAttempts = 2
    /\ web.request.endpoint = "authenticate"
    /\ web.request.digits = <<"6", "5", "4", "3", "2", "1">>
    /\ [callSid |-> 1, action |-> "pin_failure", userId |-> NoUser] \in web.callLog
    /\ web.rejected.auth = Twiml(<<AuthMessage>>, FALSE, FALSE)
    /\ \A u \in DOMAIN web.lastLogin : web.lastLogin[u] = 0
    /\ web.records = [c \in CallSids |-> 0]

\* C26: a call of generateUniquePIN draws at most ten candidates; what it
\* returns is the first candidate that no user held when it was checked,
\* and is a string of exactly six decimal digits, which rotatePIN then
\* stores as the PIN of its user; it raises only after ten candidates that
\* all collided, and then no PIN has changed.
C26_GenerateUniquePin ==
    /\ auth.draws <= 10
    /\ auth.outcome = "returned" =>
          /\ auth.draws = auth.attempts + 1
          /\ auth.result = auth.candidate
          /\ Len(auth.result) = 6
          /\ \A i \in 1..Len(auth.result) : auth.result[i] \in DigitChars
          /\ \A u \in DOMAIN auth.before : auth.before[u] # auth.result
          /\ auth.pc = "update" => auth.pins = auth.before
          /\ auth.pc = "idle" =>
                auth.pins = [auth.before EXCEPT ![auth.userId] = auth.result]
    /\ auth.outcome = "raised" =>
          /\ auth.draws = 10
          /\ auth.attempts = 10
          /\ auth.pins = auth.before

\* C26 witness: a call returned 000042 on its third draw after two
\* collisions.
C26_Witness ==
    /\ auth.outcome = "returned"
    /\ auth.draws = 3
    /\ auth.result = <<"0", "0", "0", "0", "4", "2">>
    /\ auth.pc = "idle"

\* C27: once the status of a job is completed or failed, no field of the
\* job changes, processJob is not called for it again, and the job is not
\* in the queue.
C27_TerminalFrozenStep ==
    \A j \in JobIds :
        Terminal(j) =>
            /\ jobs'[j] = jobs[j]
            /\ runs'[j] = runs[j]
            /\ \A i \in 1..Len(processingQueue') : processingQueue'[i] # j
            /\ \A l \in 1..Len(loops') :
                  loops'[l].job = j => loops'[l].pc \notin PipelinePcs \cup {"processJob", "catch"}

C27_TerminalFrozen == [][C27_TerminalFrozenStep]_vars

\* C27 witness: one job completed, the other failed for good after three
\* attempts, and the worker has returned.
C27_Witness ==
    /\ Len(jobs) = 2
    /\ \E j \in JobIds : jobs[j].status = "completed"
    /\ \E j \in JobIds : jobs[j].status = "failed" /\ jobs[j].attempts = maxAttempts
    /\ processingQueue = << >>
    /\ loops = << >>
    /\ ~isProcessing

\* C28 as stated: whatever an external call of the pipeline does, a queue
\* that holds jobs is eventually drained.
C28_AsStated == (processingQueue # << >>) ~> (processingQueue = << >>)

\* C29: a regenerate request creates a job only if the sessions table
\* holds the session of the path with the user of the token as its owner,
\* and the job is a regenerate_session job of that user for that session;
\* a request for a session that is missing or belongs to another user is
\* answered 404 when the database answers, and leaves the jobs and the
\* queue as they were.
C29_RegenerateOwnedStep ==
    Handles =>
        /\ jobs' # jobs =>
              /\ web'.request.sessionId \in 1..Len(sessions)
              /\ sessions[web'.request.sessionId].userId = web'.request.userId
              /\ Len(jobs') = Len(jobs) + 1
              /\ \A j \in 1..Len(jobs) : jobs'[j] = jobs[j]
              /\ jobs'[Len(jobs')].type = "regenerate_session"
              /\ jobs'[Len(jobs')].userId = web'.request.userId
              /\ jobs'[Len(jobs')].sessionId = web'.request.sessionId
              /\ jobs'[Len(jobs')].status = "queued"
              /\ processingQueue' = Append(processingQueue, Len(jobs'))
              /\ web'.reply.status = 200
        /\ (\/ web'.request.sessionId \notin 1..Len(sessions)
            \/ sessions[web'.request.sessionId].userId # web'.request.userId) =>
              /\ web'.request.dbUp => web'.reply.status = 404
              /\ jobs' = jobs
              /\ processingQueue' = processingQueue
              /\ loops' = loops

C29_RegenerateOwned == [][C29_RegenerateOwnedStep]_vars

\* C29 witness: user u1 queued the regeneration of the own session 1, and
\* was then answered 404 for session 2 of user u2, with one job in all.
C29_Witness ==
    /\ Len(jobs) = 1
    /\ jobs[1].type = "regenerate_session"
    /\ jobs[1].userId = "u1"
    /\ jobs[1].sessionId = 1
    /\ web.request = [sessionId |-> 2, userId |-> "u1", dbUp |-> TRUE]
    /\ web.reply.status = 404

\* C30 as stated: while no external call fails, a regenerate_session job
\* counts no failed attempt, is never marked failed, and no failure event
\* is published for it.
C30_AsStated ==
    \A j \in JobIds :
        jobs[j].type = "regenerate_session" =>
            /\ jobs[j].attempts = 0
            /\ jobs[j].status # "failed"
            /\ emitted[j].failed = 0

\* C31: for a job with a user id the started events published to the room
\* of the user are as many as the calls of processJob, at most maxAttempts;
\* the event of an attempt is published before its pipeline begins, and so
\* before any completion or failure event of the job.
C31_StartedFirst ==
    \A j \in JobIds :
        jobs[j].userId # NoUser =>
            /\ emitted[j].started = runs[j]
            /\ runs[j] <= maxAttempts
            /\ JobPc(j) \in PipelinePcs \cup {"regenerate", "emitComplete"} =>
                  emitted[j].started >= 1
            /\ (emitted[j].complete > 0 \/ emitted[j].failed > 0) =>
                  emitted[j].started >= 1

\* C31 witness: a job of a user failed for good after three attempts, each
\* with its started event, and then the failure event.
C31_Witness ==
    \E j \in JobIds :
        /\ jobs[j].userId # NoUser
        /\ runs[j] = maxAttempts
        /\ emitted[j].started = maxAttempts
        /\ emitted[j].failed = 1

\* C32 as stated: once clearQueue has been called, there still is at most
\* one processQueue invocation and at most one job with status processing.
C32_AsStated ==
    cleared # {} =>
        /\ Len(loops) <= 1
        /\ Cardinality(Processing) <= 1

\* C33 as stated: no job that existed when clearQueue was called is in the
\* queue.
C33_AsStated == \A j \in cleared : ~InQueue(j)

\* C34 as stated: while isProcessing is true a processQueue invocation is
\* inside its loop, also when publishing raises in handleJobFailure.
C34_AsStated == isProcessing => loops # << >>

\* C35 as stated: no two process_recording jobs have the same call id.
C35_AsStated ==
    \A j, k \in JobIds :
        (/\ jobs[j].type = "process_recording"
         /\ jobs[k].type = "process_recording"
         /\ jobs[j].callSid = jobs[k].callSid) => j = k

\* C36 as stated: when a process_recording job of a user is completed, the
\* sessions table holds exactly one row of its call, and that row is not
\* processing.
C36_AsStated ==
    \A j \in JobIds :
        (/\ jobs[j].type = "process_recording"
         /\ jobs[j].userId # NoUser
         /\ jobs[j].status = "completed") =>
            /\ Cardinality({r \in 1..Len(sessions) :
                               sessions[r].callSid = jobs[j].callSid}) = 1
            /\ \A r \in 1..Len(sessions) :
                  sessions[r].callSid = jobs[j].callSid =>
                      sessions[r].status # "processing"

\* C37 as stated: a session row with status completed keeps that status.
C37_AsStatedStep ==
    \A r \in 1..Len(sessions) :
        sessions[r].status = "completed" => sessions'[r].status = "completed"

C37_AsStated == [][C37_AsStatedStep]_vars

\* C38 as stated: no completion event is published for a job of a call
\* and a user for which the recording-status failure path has published a
\* failure event, or for a job that has a failure event of its own.
C38_AsStatedStep ==
    \A j \in JobIds :
        emitted'[j].complete > emitted[j].complete =>
            /\ [callSid |-> jobs[j].callSid, userId |-> jobs[j].userId]
                  \notin web.failedCalls
            /\ emitted[j].failed = 0

C38_AsStated == [][C38_AsStatedStep]_vars

\* C39 as stated: the recordings on disk are those of the attempts that
\* are between their download and their cleanup, so that none is left when
\* an attempt has ended, completed or failed.
C39_AsStated ==
    uploads = Cardinality({l \in 1..Len(loops) :
                              loops[l].pc \in {"validate", "transcribe", "analyze",
                                               "createSession", "generate", "files",
                                               "saveUpdate", "saveInsert", "notify",
                                               "cleanup"}})

\* C40: no two rows of the users table hold the same PIN, whatever the
\* interleaving of the requests: of two concurrent calls that were given
\* the same free value, the write of at most one is in the table.
C40_PinsDistinct ==
    \A u, v \in DOMAIN auth.pins :
        (u # v /\ auth.pins[u] # << >>) => auth.pins[u] # auth.pins[v]

\* C40 witness: the rotation for u1 and the registration of u3 were given
\* the same free value; the first write stored it and the constraint
\* refused the second.
C40_Witness ==
    /\ auth.calls[1].userId = "u1"
    /\ auth.calls[2].userId = "u3"
    /\ auth.calls[1].candidate = <<"0", "0", "0", "0", "4", "2">>
    /\ auth.calls[2].candidate = auth.calls[1].candidate
    /\ auth.calls[1].outcome = "stored"
    /\ auth.calls[2].outcome = "refused"
    /\ auth.pins["u1"] = auth.calls[1].candidate
    /\ auth.pins["u3"] = << >>
====
